---- MODULE Spec2Model ----
(***************************************************************************)
(* Verification model of @dwidge/components-expo.                          *)
(*                                                                         *)
(* Part 1: the file synchronisation coordinator useFileUri                 *)
(* (src/src/file/useFileUri.ts) together with uploadFileDataUri and        *)
(* fetchFileDataUri (src/src/uploadFileDataUri.ts) and the data-URI        *)
(* helpers (src/src/uri.ts).                                               *)
(*                                                                         *)
(* Strings are sequences of tokens: the delimiters ":", ";" and "," are    *)
(* tokens of their own, every other token is an atom without delimiters.   *)
(* Bytes are sequences of integers 0..255.  null and undefined are the     *)
(* sentinels Null/Undef (strings), NullNum (numbers), NullHash (hashes).   *)
(***************************************************************************)
EXTENDS Integers, Sequences, FiniteSets, TLC

(***************************************************************************)
(* Bounds of the model.                                                    *)
(***************************************************************************)
MaxSets == 2

(***************************************************************************)
(* Sentinels.                                                              *)
(***************************************************************************)
Null == <<"#null">>
Undef == <<"#undefined">>
NullNum == -1
NullHash == <<-1>>

Truthy(s) == s # Null /\ s # Undef /\ s # <<>>

(***************************************************************************)
(* JavaScript string helpers on token sequences.                           *)
(***************************************************************************)
IndexOf(s, t) ==
  IF \E i \in 1..Len(s) : s[i] = t
    THEN (CHOOSE i \in 1..Len(s) : s[i] = t /\ \A j \in 1..(i-1) : s[j] # t) - 1
    ELSE -1

Clamp(n, len) == IF n < 0 THEN 0 ELSE IF n > len THEN len ELSE n

\* String.prototype.substring(a, b): clamps both to 0..length, swaps if a > b
Substring(s, a, b) ==
  LET ca == Clamp(a, Len(s))
      cb == Clamp(b, Len(s))
      lo == IF ca < cb THEN ca ELSE cb
      hi == IF ca < cb THEN cb ELSE ca
  IN  SubSeq(s, lo + 1, hi)

(***************************************************************************)
(* Base64 (package "buffer"): the 64 digits, "=" pads.                     *)
(***************************************************************************)
Alphabet ==
  << "A","B","C","D","E","F","G","H","I","J","K","L","M","N","O","P",
     "Q","R","S","T","U","V","W","X","Y","Z","a","b","c","d","e","f",
     "g","h","i","j","k","l","m","n","o","p","q","r","s","t","u","v",
     "w","x","y","z","0","1","2","3","4","5","6","7","8","9","+","/" >>

Digit(n) == Alphabet[n + 1]
DigitValue(c) == (CHOOSE i \in 1..64 : Alphabet[i] = c) - 1
IsDigit(c) == \E i \in 1..64 : Alphabet[i] = c

RECURSIVE EncodeBase64(_)
\* Buffer.prototype.toString("base64")
EncodeBase64(b) ==
  IF Len(b) = 0 THEN <<>>
  ELSE IF Len(b) = 1 THEN
    << Digit(b[1] \div 4), Digit((b[1] % 4) * 16), "=", "=" >>
  ELSE IF Len(b) = 2 THEN
    << Digit(b[1] \div 4), Digit((b[1] % 4) * 16 + b[2] \div 16),
       Digit((b[2] % 16) * 4), "=" >>
  ELSE
    << Digit(b[1] \div 4), Digit((b[1] % 4) * 16 + b[2] \div 16),
       Digit((b[2] % 16) * 4 + b[3] \div 64), Digit(b[3] % 64) >>
    \o EncodeBase64(SubSeq(b, 4, Len(b)))

\* base64clean: the part before the first "=", without the characters that
\* are no base64 digits
Base64Clean(s) ==
  LET cut == IF IndexOf(s, "=") < 0 THEN s ELSE SubSeq(s, 1, IndexOf(s, "="))
  IN  SelectSeq(cut, IsDigit)

RECURSIVE DecodeDigits(_)
DecodeDigits(d) ==
  IF Len(d) < 2 THEN <<>>
  ELSE IF Len(d) = 2 THEN
    << DigitValue(d[1]) * 4 + DigitValue(d[2]) \div 16 >>
  ELSE IF Len(d) = 3 THEN
    << DigitValue(d[1]) * 4 + DigitValue(d[2]) \div 16,
       (DigitValue(d[2]) % 16) * 16 + DigitValue(d[3]) \div 4 >>
  ELSE
    << DigitValue(d[1]) * 4 + DigitValue(d[2]) \div 16,
       (DigitValue(d[2]) % 16) * 16 + DigitValue(d[3]) \div 4,
       (DigitValue(d[3]) % 4) * 64 + DigitValue(d[4]) >>
    \o DecodeDigits(SubSeq(d, 5, Len(d)))

(***************************************************************************)
(* src/src/uri.ts                                                          *)
(***************************************************************************)
getMimeFromUri(uri) == Substring(uri, IndexOf(uri, ":") + 1, IndexOf(uri, ";"))

getDataFromUri(uri) == Substring(uri, IndexOf(uri, ",") + 1, Len(uri))

\* a decoder that drops the digits after the last whole group of four
getBufferFromBase64WholeGroups(base64) ==
  LET d == Base64Clean(base64)
  IN  DecodeDigits(SubSeq(d, 1, 4 * (Len(d) \div 4)))

getBufferFromBase64(base64) == DecodeDigits(Base64Clean(base64))

getBufferFromUri(uri) == getBufferFromBase64(getDataFromUri(uri))

getSizeFromUri(uri) == Len(getBufferFromUri(uri))

\* SHA-256 is modelled as a collision-free digest: the tag 256 followed by
\* the bytes digested
getSha256HexFromBuffer(data) == <<256>> \o data

getBase64FromBuffer(data) == EncodeBase64(data)

getUriFromDoc(data, mime) == <<"data", ":">> \o mime \o <<";", "base64", ",">> \o data

\* Doc.parse: data and sha256 are strings of at least one character
getDocFromUri(uri) ==
  LET buffer == getBufferFromUri(uri)
  IN  [ ok     |-> Len(getDataFromUri(uri)) >= 1,
        data   |-> getDataFromUri(uri),
        mime   |-> getMimeFromUri(uri),
        size   |-> Len(buffer),
        sha256 |-> getSha256HexFromBuffer(buffer) ]

(***************************************************************************)
(* MIME types and the contents a caller hands to setUri.                   *)
(***************************************************************************)
PNG == <<"image/png">>
JPEG == <<"image/jpeg">>
TXT == <<"text/plain">>
OCTET == <<"application/octet-stream">>

\* mime.startsWith("image/")
IsImageMime(mime) == Len(mime) >= 1 /\ mime[1] \in {"image/png", "image/jpeg"}

DataUri(mime, bytes) == getUriFromDoc(EncodeBase64(bytes), mime)

\* UriA and UriT: the same bytes under two mimes; UriT and UriC: the same
\* mime and size, other bytes; UriBig: an image wider than the maximum
UriA == DataUri(PNG, <<1>>)
UriT == DataUri(TXT, <<1>>)
UriC == DataUri(TXT, <<2>>)
UriBig == DataUri(PNG, <<200>>)

\* (uri, mime) arguments of setUri
SetInputs == { <<UriA, PNG>>, <<UriT, TXT>>, <<UriBig, PNG>> }

(***************************************************************************)
(* src/src/compressImage.ts.  ImageManipulator is external: an image's     *)
(* width in pixels is taken to be 8 times its first byte, and resizing to  *)
(* the maximal width re-encodes it as a JPEG of that width.                *)
(***************************************************************************)
ResizeWidth == 800

ImageWidth(uri) ==
  LET b == getBufferFromUri(uri) IN IF Len(b) = 0 THEN 0 ELSE b[1] * 8

\* compressImage that returns what it was given
compressImageKeepsOriginal(uri) == uri

compressImage(uri) ==
  IF ImageWidth(uri) > ResizeWidth
    THEN DataUri(JPEG, <<ResizeWidth \div 8, 0>>)
    ELSE uri

\* convertFilePathToDataUri: a uri that is no "file:" path is returned as it is
convertFilePathToDataUri(filePath) ==
  IF Len(filePath) >= 2 /\ filePath[1] = "file" /\ filePath[2] = ":"
    THEN DataUri(OCTET, <<>>)
    ELSE filePath

(***************************************************************************)
(* The remote record (File2Get) and the object store behind its signed     *)
(* URLs.  The record's URLs are set exactly when its metadata is set.      *)
(***************************************************************************)
MaxRefresh == 1

NullUrl == "#null"
Url == "url"

NullMeta == [mime |-> Null, size |-> NullNum, sha256 |-> NullHash]

MetaOf(uri, mime) ==
  [ mime   |-> mime,
    size   |-> getDocFromUri(uri).size,
    sha256 |-> getDocFromUri(uri).sha256 ]

FileOf(meta) ==
  [ mime   |-> meta.mime,
    size   |-> meta.size,
    sha256 |-> meta.sha256,
    getUrl |-> IF meta.mime = Null THEN NullUrl ELSE Url,
    putUrl |-> IF meta.mime = Null THEN NullUrl ELSE Url ]

NoObject == [present |-> FALSE, ct |-> <<>>, body |-> <<>>]
Object(ct, body) == [present |-> TRUE, ct |-> ct, body |-> body]
ObjectOf(uri) == Object(getMimeFromUri(uri), getBufferFromUri(uri))

\* HTTP responses: 200 with a content-type header and a body, 404, or a
\* failure without a usable response (status 0)
Response(status, ct, body) == [status |-> status, ct |-> ct, body |-> body]
NotFound == Response(404, <<>>, <<>>)
NetworkError == Response(0, <<>>, <<>>)

\* what a GET of getUrl can answer
GetResponses(obj) ==
  {NotFound, NetworkError}
    \cup (IF obj.present THEN {Response(200, obj.ct, obj.body)} ELSE {})

(***************************************************************************)
(* src/src/uploadFileDataUri.ts                                            *)
(***************************************************************************)
\* fetchFileDataUri without the 404 case of its catch: a 404 rejects
fetchFileDataUriRejects404(resp, hasPutBuffer, putBuffer) ==
  IF resp.status = 200 /\ (~hasPutBuffer \/ putBuffer = resp.body)
    THEN [ ok  |-> TRUE,
           uri |-> getUriFromDoc(getBase64FromBuffer(resp.body),
                                 IF resp.ct = <<>> THEN OCTET ELSE resp.ct) ]
    ELSE [ok |-> FALSE, uri |-> Null]

\* fetchFileDataUri: [ok |-> resolved?, uri |-> the data uri, or Null on 404]
fetchFileDataUri(resp, hasPutBuffer, putBuffer) ==
  IF resp.status = 200
    THEN LET buffer == resp.body
             mime   == IF resp.ct = <<>> THEN OCTET ELSE resp.ct
             data   == getBase64FromBuffer(buffer)
         IN  IF hasPutBuffer /\ putBuffer # buffer
               THEN [ok |-> FALSE, uri |-> Null]
             ELSE IF getBufferFromBase64(data) # buffer
               THEN [ok |-> FALSE, uri |-> Null]
             ELSE [ok |-> TRUE, uri |-> getUriFromDoc(data, mime)]
  ELSE IF resp.status = 404
    THEN [ok |-> TRUE, uri |-> Null]
    ELSE [ok |-> FALSE, uri |-> Null]

\* the assertions that precede the PUT without uploadFileDataUriE3 on the hash
UploadPreCheckIgnoresHash(u) ==
  LET putBuffer == getBufferFromUri(u.uri)
  IN  /\ Len(putBuffer) = u.size
      /\ getMimeFromUri(u.uri) = u.mime

\* the assertions uploadFileDataUriE1..E3 that precede the PUT
UploadPreCheck(u) ==
  LET putBuffer == getBufferFromUri(u.uri)
  IN  /\ Len(putBuffer) = u.size
      /\ getMimeFromUri(u.uri) = u.mime
      /\ getSha256HexFromBuffer(putBuffer) = u.hash

\* the verification without the assertion uploadFileDataUriE5 on the mime
UploadVerifyIgnoresMime(u, resp) ==
  LET got == fetchFileDataUri(resp, TRUE, getBufferFromUri(u.uri))
  IN  /\ got.ok
      /\ Truthy(got.uri)
      /\ Len(getBufferFromUri(got.uri)) = u.size
      /\ getSha256HexFromBuffer(getBufferFromUri(got.uri)) = u.hash

\* the verification that follows the PUT: the GET and uploadFileDataUriE4..E7
UploadVerify(u, resp) ==
  LET got == fetchFileDataUri(resp, TRUE, getBufferFromUri(u.uri))
  IN  /\ got.ok
      /\ Truthy(got.uri)
      /\ Len(getBufferFromUri(got.uri)) = u.size
      /\ getMimeFromUri(got.uri) = u.mime
      /\ getSha256HexFromBuffer(getBufferFromUri(got.uri)) = u.hash

(***************************************************************************)
(* src/src/file/useFileUri.ts: the state of one mounted coordinator.       *)
(***************************************************************************)
VARIABLES
  file,          \* the record the hook is given (the first element of UseFile2)
  serverMeta,    \* the metadata the collaborator holds, written by setFile
  store,         \* the object stored behind getUrl / putUrl
  localMeta,     \* useState localMeta
  uploaded,      \* useState uploaded
  isUploading,   \* useState isUploading
  effectPending, \* a dependency of the effect changed since it last ran
  uploads,       \* uploadFileDataUri calls that have not settled
  fetches,       \* fetchFileDataUri calls of the resolve branch, not settled
  pendingSets,   \* setUri(uri, mime) calls awaiting compression and hashing
  nSets,         \* number of setUri calls made
  nSetFile,      \* number of setFile calls made
  nRefresh,      \* number of times the record was re-delivered unchanged
  sinceFail      \* "failed": a resolve fetch rejected and nothing was delivered
                 \* since; "failedInput": a record was delivered since, but no
                 \* setUri was called; "none" otherwise

fileVars == << file, serverMeta, store, localMeta, uploaded, isUploading,
               effectPending, uploads, fetches, pendingSets,
               nSets, nSetFile, nRefresh, sinceFail >>


LocalUndefined ==
  [tag |-> "undefined", mime |-> Null, size |-> NullNum, sha256 |-> NullHash, uri |-> Undef]
LocalNull ==
  [tag |-> "null", mime |-> Null, size |-> NullNum, sha256 |-> NullHash, uri |-> Undef]
LocalObject(meta, uri) ==
  [tag |-> "object", mime |-> meta.mime, size |-> meta.size, sha256 |-> meta.sha256, uri |-> uri]

\* localMeta?.uri
UriOf(meta) == IF meta.tag = "object" THEN meta.uri ELSE Undef
LocalUri == UriOf(localMeta)

RemoveAt(seq, i) == SubSeq(seq, 1, i - 1) \o SubSeq(seq, i + 1, Len(seq))

(***************************************************************************)
(* The module holds several machines, each with its own variables and its  *)
(* own specification; a machine's actions leave the other machines'        *)
(* variables unchanged.  Their variables are declared here and their       *)
(* actions follow the coordinator's.                                       *)
(***************************************************************************)
\* src/src/uri.ts: a payload on its way through the data-uri encoding
VARIABLES
  payload,       \* the bytes B
  payloadMime,   \* the mime of the Doc
  encoded,       \* getUriFromDoc({data: base64(B), mime}), once computed
  decoded        \* what getBufferFromUri and getMimeFromUri make of it

codecVars == << payload, payloadMime, encoded, decoded >>

\* src/src/uploadFileDataUri.ts: one call of uploadFileDataUri
VARIABLES
  upCall,        \* the arguments uri, size, mime, hash
  upPc,          \* "idle", "put", "get", "resolved" or "rejected"
  upRequests,    \* the HTTP requests sent so far
  upRemote,      \* the object behind putUrl and getUrl
  upError        \* the rejection: its name and its cause

upFnVars == << upCall, upPc, upRequests, upRemote, upError >>

\* src/src/file/FilePreview.tsx: one Storage and the getter of useLocalUri
VARIABLES
  impl,          \* "IndexedDBStorage" or "ExpoFileStorage"
  db,            \* the IndexedDB database localUriDB
  files,         \* the directory of ExpoFileStorage
  stored,        \* per id, the value of the last completed store or delete
  outcome,       \* how the last call settled
  nOps           \* number of calls made

storageVars == << impl, db, files, stored, outcome, nOps >>

\* src/src/DoodlePad/DoodlePad.tsx: the component
VARIABLES
  doodleUri,       \* the prop doodleUri[0]
  hasSetter,       \* the prop doodleUri[1] is given
  backgroundUri,   \* the prop backgroundUri
  modalVisible,    \* useState modalVisible
  webViewReady,    \* useState webViewReady
  webView,         \* the WebView inside the modal: "none", "loading", "loaded"
  effectDue,       \* the init effect has to run for the last render
  loadedSinceOpen, \* onLoad was reported since the modal was last opened
  initFor,         \* the doodleUri of the last 'init' message since then
  lastMessage,     \* the source of the last message onMessage handled
  nEvents          \* number of events handled

doodleVars == << doodleUri, hasSetter, backgroundUri, modalVisible,
                 webViewReady, webView, effectDue, loadedSinceOpen, initFor,
                 lastMessage, nEvents >>

\* src/src/DoodlePad/DoodlePad.tsx: the canvas script of doodlePadHTML
VARIABLES
  drawing,       \* let drawing
  drawingMode,   \* let drawingMode
  currentPath,   \* let currentPath: the points of the array it refers to
  currentShape,  \* let currentShape
  history,       \* let history: paths and shapes
  doodleImage,   \* let doodleImage: "null" or "img"
  gesture,       \* what the pointer has done since the last mousedown
  opLog,         \* the strokes completed and the undo and clear calls, in order
  interrupted    \* the stroke being drawn was interrupted by a clear or a
                 \* change of mode

canvasVars == << drawing, drawingMode, currentPath, currentShape, history,
                 doodleImage, gesture, opLog, interrupted >>

\* src/src/utils/applyCronOffset.ts and src/src/useOffsetCron.ts
VARIABLES
  fnImpl,        \* which applyCronOffset was called: "none", "utils" or "days"
  fnCron,        \* its argument cron, as the fields between its spaces
  fnOffset,      \* its argument offsetSeconds
  fnOut,         \* what it returned
  hookCron,      \* useOffsetCron: the cron the parent stores (cronTuple[0])
  hookOffset,    \* useOffsetCron: offsetSeconds
  hookCalls,     \* useOffsetCron: the number of calls of the exposed setter
  hookLast       \* useOffsetCron: what the last call was given: "none",
                 \* "value" or "exposed"

cronVars == << fnImpl, fnCron, fnOffset, fnOut, hookCron, hookOffset, hookCalls,
               hookLast >>

earlyVars == << fileVars, codecVars, upFnVars, storageVars, doodleVars, canvasVars >>
\* IndexedDBStorage instances of several scopes on one device
VARIABLES
  scDb,          \* the database "localUriDB" of the origin
  scStored,      \* per scope and id, the value last stored through the scope
  scOutcome,     \* how the last call settled
  scOps          \* the number of calls made

scopeVars == << scDb, scStored, scOutcome, scOps >>

\* CronIntervalPicker
VARIABLES
  pkValue,       \* the parent's cron: its fields, or Null
  pkGiven,       \* the arguments of the last generateCron call
  pkHandler,     \* the handler that made it
  pkOps          \* the number of handler calls

pickerVars == << pkValue, pkGiven, pkHandler, pkOps >>

\* DateRangePicker
VARIABLES
  dateRangeValue,     \* the parent's value
  internalDateRange,  \* useState of the picker
  rgModalVisible,       \* useState of the picker
  rgCalls,            \* how often the parent's setter was called
  rgOps               \* the number of handler calls

rangeVars == << dateRangeValue, internalDateRange, rgModalVisible, rgCalls, rgOps >>

\* ListView of makeDatabaseTestScreen
VARIABLES
  lvTotal,       \* the number of items the api has
  lvList,        \* what api.useGetList returns: the page's items or LoadingList
  lvData,        \* useState data: its items, and which array object it is
  lvPage,        \* useState page
  lvEffect,      \* the pagination effect is due: a dependency has changed
  lvOps          \* the number of user events

listVars == << lvTotal, lvList, lvData, lvPage, lvEffect, lvOps >>

laterVars == << cronVars, scopeVars, pickerVars, rangeVars, listVars >>

vars == << earlyVars, laterVars >>

\* the frame of each machine's actions
FileFrame == UNCHANGED << codecVars, upFnVars, storageVars, doodleVars, canvasVars, laterVars >>
CodecFrame == UNCHANGED << fileVars, upFnVars, storageVars, doodleVars, canvasVars, laterVars >>
UpFnFrame == UNCHANGED << fileVars, codecVars, storageVars, doodleVars, canvasVars, laterVars >>
StorageFrame == UNCHANGED << fileVars, codecVars, upFnVars, doodleVars, canvasVars, laterVars >>
DoodleFrame == UNCHANGED << fileVars, codecVars, upFnVars, storageVars, canvasVars, laterVars >>
CanvasFrame == UNCHANGED << fileVars, codecVars, upFnVars, storageVars, doodleVars, laterVars >>

\* a machine that a specification does not run stays in these states
CodecOff ==
  /\ payload = <<>> /\ payloadMime = <<>> /\ encoded = Undef
  /\ decoded = [done |-> FALSE, bytes |-> <<>>, mime |-> <<>>]
UpFnOff ==
  /\ upCall = [uri |-> Undef, size |-> NullNum, mime |-> Undef, hash |-> NullHash]
  /\ upPc = "idle" /\ upRequests = <<>>
  /\ upRemote = NoObject /\ upError = [name |-> "", cause |-> ""]
StorageOff ==
  /\ impl = "none" /\ db = Undef /\ files = Undef /\ stored = Undef
  /\ outcome = Undef /\ nOps = 0
DoodleOff ==
  /\ doodleUri = "undefined" /\ hasSetter = FALSE /\ backgroundUri = "undefined"
  /\ modalVisible = FALSE /\ webViewReady = FALSE /\ webView = "none"
  /\ effectDue = FALSE /\ loadedSinceOpen = FALSE /\ initFor = "none"
  /\ lastMessage = "none" /\ nEvents = 0
CanvasOff ==
  /\ drawing = FALSE /\ drawingMode = "pencil" /\ currentPath = <<>>
  /\ currentShape = [kind |-> "null", shared |-> FALSE, points |-> <<>>,
                     start |-> 0, end |-> 0]
  /\ history = <<>> /\ doodleImage = "null"
  /\ gesture = [mode |-> "pencil", points |-> <<>>]
  /\ opLog = <<>> /\ interrupted = FALSE
CronOff ==
  /\ fnImpl = "none" /\ fnCron = <<>> /\ fnOffset = 0 /\ fnOut = <<>>
  /\ hookCron = Null /\ hookOffset = 0 /\ hookCalls = 0 /\ hookLast = "none"
ScopeOff == scDb = <<>> /\ scStored = <<>> /\ scOutcome = <<>> /\ scOps = 0
PickerOff == pkValue = <<>> /\ pkGiven = <<>> /\ pkHandler = "off" /\ pkOps = 0
RangeOff ==
  /\ dateRangeValue = <<>> /\ internalDateRange = <<>> /\ rgModalVisible = FALSE
  /\ rgCalls = 0 /\ rgOps = 0
ListOff ==
  /\ lvTotal = 0 /\ lvList = <<>> /\ lvData = <<>> /\ lvPage = 0
  /\ lvEffect = FALSE /\ lvOps = 0
LaterOff == CronOff /\ ScopeOff /\ PickerOff /\ RangeOff /\ ListOff
FileOff ==
  /\ file = FileOf(NullMeta) /\ serverMeta = NullMeta /\ store = NoObject
  /\ localMeta = LocalUndefined /\ uploaded = TRUE /\ isUploading = FALSE
  /\ effectPending = FALSE /\ uploads = <<>> /\ fetches = <<>>
  /\ pendingSets = <<>> /\ nSets = 0 /\ nSetFile = 0 /\ nRefresh = 0
  /\ sinceFail = "none"

\* the initial remote states: an empty record, and a record whose object is
\* stored
InitialRemotes ==
  { <<NullMeta, NoObject>>,
    <<MetaOf(UriC, TXT), ObjectOf(UriC)>> }

Init ==
  /\ \E r \in InitialRemotes :
       /\ serverMeta = r[1]
       /\ store = r[2]
       /\ file = FileOf(r[1])
  /\ localMeta = LocalUndefined
  /\ uploaded = TRUE
  /\ isUploading = FALSE
  /\ effectPending = TRUE
  /\ uploads = <<>>
  /\ fetches = <<>>
  /\ pendingSets = <<>>
  /\ nSets = 0
  /\ nSetFile = 0
  /\ nRefresh = 0
  /\ sinceFail = "none"
  /\ CodecOff /\ UpFnOff /\ StorageOff /\ DoodleOff /\ CanvasOff /\ LaterOff

(***************************************************************************)
(* The effect of useFileUri (lines 34-73).  It runs after a render in      *)
(* which one of its dependencies [localMeta, file, uploaded, isUploading]  *)
(* changed; objects are compared by identity, so every setLocalMeta of an  *)
(* object is a change.                                                     *)
(***************************************************************************)
\* the condition under which the effect starts an upload (lines 35-45)
UploadGate(f, uri, up, busy) ==
  /\ Truthy(uri) /\ ~up /\ ~busy
  /\ f.putUrl # NullUrl
  /\ f.mime # Null
  /\ f.size # NullNum
  /\ f.sha256 # NullHash
  /\ f.getUrl # NullUrl
  /\ f.mime = getMimeFromUri(uri)
  /\ f.size = getSizeFromUri(uri)

\* the condition under which the effect resolves the remote content (line 61)
ResolveGate(uri, up) == uri = Undef /\ up

UploadCall(f, uri) ==
  [putUrl |-> f.putUrl, uri |-> uri, size |-> f.size, mime |-> f.mime,
   hash |-> f.sha256, getUrl |-> f.getUrl, stage |-> "put"]

EffectUpload ==
  /\ effectPending
  /\ UploadGate(file, LocalUri, uploaded, isUploading)
  /\ isUploading' = TRUE
  /\ uploads' = Append(uploads, UploadCall(file, LocalUri))
  /\ effectPending' = TRUE
  /\ UNCHANGED << file, serverMeta, store, localMeta, uploaded, fetches,
                  pendingSets, nSets, nRefresh, sinceFail >>
  /\ UNCHANGED nSetFile
  /\ FileFrame

EffectFetch ==
  /\ effectPending
  /\ ~UploadGate(file, LocalUri, uploaded, isUploading)
  /\ ResolveGate(LocalUri, uploaded)
  /\ file.getUrl # NullUrl /\ file.mime # Null
  /\ fetches' = Append(fetches, file)
  /\ effectPending' = FALSE
  /\ UNCHANGED << file, serverMeta, store, localMeta, uploaded, isUploading,
                  uploads, pendingSets, nSets, nRefresh, sinceFail >>
  /\ UNCHANGED nSetFile
  /\ FileFrame

EffectAbsent ==
  /\ effectPending
  /\ ~UploadGate(file, LocalUri, uploaded, isUploading)
  /\ ResolveGate(LocalUri, uploaded)
  /\ ~(file.getUrl # NullUrl /\ file.mime # Null)
  /\ localMeta' = LocalNull
  /\ uploaded' = FALSE
  /\ effectPending' = TRUE
  /\ UNCHANGED << file, serverMeta, store, isUploading, uploads, fetches,
                  pendingSets, nSets, nRefresh, sinceFail >>
  /\ UNCHANGED nSetFile
  /\ FileFrame

EffectIdle ==
  /\ effectPending
  /\ ~UploadGate(file, LocalUri, uploaded, isUploading)
  /\ ~ResolveGate(LocalUri, uploaded)
  /\ effectPending' = FALSE
  /\ UNCHANGED << file, serverMeta, store, localMeta, uploaded, isUploading,
                  uploads, fetches, pendingSets, nSets, nRefresh, sinceFail >>
  /\ UNCHANGED nSetFile
  /\ FileFrame

Effect == EffectUpload \/ EffectFetch \/ EffectAbsent \/ EffectIdle

(***************************************************************************)
(* setUri (lines 75-105).                                                  *)
(***************************************************************************)
\* setUri(null, mime)
SetUriNull ==
  /\ nSets < MaxSets
  /\ nSets' = nSets + 1
  /\ localMeta' = LocalNull
  /\ uploaded' = TRUE
  /\ isUploading' = FALSE
  /\ serverMeta' = NullMeta
  /\ effectPending' = (effectPending \/ localMeta # LocalNull \/ ~uploaded \/ isUploading)
  /\ sinceFail' = "none"
  /\ UNCHANGED << file, store, uploads, fetches, pendingSets, nRefresh >>
  /\ nSetFile' = nSetFile + 1
  /\ FileFrame

\* setUri(uri, mime) is called: nothing is set before compressImage,
\* convertFilePathToDataUri and getDocFromUri have been awaited
SetUriCall(uri, mime) ==
  /\ nSets < MaxSets
  /\ nSets' = nSets + 1
  /\ pendingSets' = Append(pendingSets, [uri |-> uri, mime |-> mime])
  /\ sinceFail' = "none"
  /\ UNCHANGED << file, serverMeta, store, localMeta, uploaded, isUploading,
                  effectPending, uploads, fetches, nRefresh >>
  /\ UNCHANGED nSetFile
  /\ FileFrame

\* the data uri setUri stores for its arguments (lines 84-86)
StoredUri(uri, mime) ==
  convertFilePathToDataUri(IF IsImageMime(mime) THEN compressImage(uri) ELSE uri)

\* the rest of setUri(uri, mime) (lines 87-102)
SetUriApply(i) ==
  LET p       == pendingSets[i]
      dataUri == StoredUri(p.uri, p.mime)
      doc     == getDocFromUri(dataUri)
      meta    == [mime |-> p.mime, size |-> doc.size, sha256 |-> doc.sha256]
  IN  /\ doc.ok
      /\ pendingSets' = RemoveAt(pendingSets, i)
      /\ localMeta' = LocalObject(meta, dataUri)
      /\ uploaded' = FALSE
      /\ isUploading' = FALSE
      /\ serverMeta' = meta
      /\ effectPending' = TRUE
      /\ sinceFail' = "none"
      /\ UNCHANGED << file, store, uploads, fetches, nSets, nRefresh >>
      /\ nSetFile' = nSetFile + 1
      /\ FileFrame

(***************************************************************************)
(* The collaborator delivers the record.                                   *)
(***************************************************************************)
\* the record written by setFile reaches the hook
RecordLands ==
  /\ file # FileOf(serverMeta)
  /\ file' = FileOf(serverMeta)
  /\ effectPending' = TRUE
  /\ sinceFail' = (IF sinceFail = "none" THEN "none" ELSE "failedInput")
  /\ UNCHANGED << serverMeta, store, localMeta, uploaded, isUploading, uploads,
                  fetches, pendingSets, nSets, nRefresh >>
  /\ UNCHANGED nSetFile
  /\ FileFrame

\* the same record is delivered again as a new object
RecordRefresh ==
  /\ nRefresh < MaxRefresh
  /\ nRefresh' = nRefresh + 1
  /\ effectPending' = TRUE
  /\ sinceFail' = (IF sinceFail = "none" THEN "none" ELSE "failedInput")
  /\ UNCHANGED << file, serverMeta, store, localMeta, uploaded, isUploading,
                  uploads, fetches, pendingSets, nSets >>
  /\ UNCHANGED nSetFile
  /\ FileFrame

(***************************************************************************)
(* uploadFileDataUri settles step by step.                                 *)
(***************************************************************************)
\* an assertion before the PUT fails (uploadFileDataUriE1..E3): the call rejects
UploadPreCheckFails(i) ==
  /\ uploads[i].stage = "put"
  /\ ~UploadPreCheck(uploads[i])
  /\ uploads' = RemoveAt(uploads, i)
  /\ UNCHANGED << file, serverMeta, store, localMeta, uploaded, isUploading,
                  effectPending, fetches, pendingSets, nSets, nRefresh, sinceFail >>
  /\ UNCHANGED nSetFile
  /\ FileFrame

\* the assertions hold and the PUT fails: the call rejects
UploadPutFails(i) ==
  /\ uploads[i].stage = "put"
  /\ UploadPreCheck(uploads[i])
  /\ uploads' = RemoveAt(uploads, i)
  /\ UNCHANGED << file, serverMeta, store, localMeta, uploaded, isUploading,
                  effectPending, fetches, pendingSets, nSets, nRefresh, sinceFail >>
  /\ UNCHANGED nSetFile
  /\ FileFrame

\* the assertions hold and the PUT stores the bytes
UploadPut(i) ==
  /\ uploads[i].stage = "put"
  /\ UploadPreCheck(uploads[i])
  /\ store' = ObjectOf(uploads[i].uri)
  /\ uploads' = [uploads EXCEPT ![i].stage = "get"]
  /\ UNCHANGED << file, serverMeta, localMeta, uploaded, isUploading,
                  effectPending, fetches, pendingSets, nSets, nRefresh, sinceFail >>
  /\ UNCHANGED nSetFile
  /\ FileFrame

\* the verification GET answers resp and every assertion holds: the call
\* resolves and the then-handler of the effect runs (lines 55-58)
UploadResolves(i, resp) ==
  /\ uploads[i].stage = "get"
  /\ UploadVerify(uploads[i], resp)
  /\ uploads' = RemoveAt(uploads, i)
  /\ uploaded' = TRUE
  /\ isUploading' = FALSE
  /\ effectPending' = (effectPending \/ ~uploaded \/ isUploading)
  /\ UNCHANGED << file, serverMeta, store, localMeta, fetches, pendingSets,
                  nSets, nRefresh, sinceFail >>
  /\ UNCHANGED nSetFile
  /\ FileFrame

\* the verification GET answers resp and an assertion fails: the call rejects
UploadVerifyFails(i, resp) ==
  /\ uploads[i].stage = "get"
  /\ ~UploadVerify(uploads[i], resp)
  /\ uploads' = RemoveAt(uploads, i)
  /\ UNCHANGED << file, serverMeta, store, localMeta, uploaded, isUploading,
                  effectPending, fetches, pendingSets, nSets, nRefresh, sinceFail >>
  /\ UNCHANGED nSetFile
  /\ FileFrame

(***************************************************************************)
(* The resolve fetch settles (lines 64-67).                                *)
(***************************************************************************)
\* fetchFileDataUri resolves with a data uri or, on 404, with null
FetchResolves(i, resp) ==
  LET got == fetchFileDataUri(resp, FALSE, <<>>)
  IN  /\ got.ok
      /\ fetches' = RemoveAt(fetches, i)
      /\ localMeta' = LocalObject(fetches[i], got.uri)
      /\ uploaded' = Truthy(got.uri)
      /\ effectPending' = TRUE
      /\ UNCHANGED << file, serverMeta, store, isUploading, uploads,
                      pendingSets, nSets, nRefresh, sinceFail >>
      /\ UNCHANGED nSetFile
      /\ FileFrame

\* a rejection handler that sets state and so schedules the effect again
FetchRejectsAndRerenders(i, resp) ==
  /\ ~fetchFileDataUri(resp, FALSE, <<>>).ok
  /\ fetches' = RemoveAt(fetches, i)
  /\ effectPending' = TRUE
  /\ sinceFail' = "failed"
  /\ UNCHANGED << file, serverMeta, store, localMeta, uploaded, isUploading,
                  uploads, pendingSets, nSets, nRefresh >>
  /\ UNCHANGED nSetFile
  /\ FileFrame

\* fetchFileDataUri rejects: nothing handles the rejection
FetchRejects(i, resp) ==
  /\ ~fetchFileDataUri(resp, FALSE, <<>>).ok
  /\ fetches' = RemoveAt(fetches, i)
  /\ sinceFail' = (IF effectPending THEN sinceFail ELSE "failed")
  /\ UNCHANGED << file, serverMeta, store, localMeta, uploaded, isUploading,
                  effectPending, uploads, pendingSets, nSets, nRefresh >>
  /\ UNCHANGED nSetFile
  /\ FileFrame

Next ==
  \/ Effect
  \/ SetUriNull
  \/ \E inp \in SetInputs : SetUriCall(inp[1], inp[2])
  \/ \E i \in 1..Len(pendingSets) : SetUriApply(i)
  \/ RecordLands
  \/ RecordRefresh
  \/ \E i \in 1..Len(uploads) : UploadPreCheckFails(i)
  \/ \E i \in 1..Len(uploads) : UploadPutFails(i)
  \/ \E i \in 1..Len(uploads) : UploadPut(i)
  \/ \E i \in 1..Len(uploads) : \E resp \in GetResponses(store) : UploadResolves(i, resp)
  \/ \E i \in 1..Len(uploads) : \E resp \in GetResponses(store) : UploadVerifyFails(i, resp)
  \/ \E i \in 1..Len(fetches) : \E resp \in GetResponses(store) : FetchResolves(i, resp)
  \/ \E i \in 1..Len(fetches) : \E resp \in GetResponses(store) : FetchRejects(i, resp)

Spec == Init /\ [][Next]_vars

\* what the hook returns (lines 107-111)
ExposedUri == IF file.getUrl = NullUrl THEN Null ELSE LocalUri
Busy == isUploading \/ (~uploaded /\ Truthy(LocalUri))

(***************************************************************************)
(* Claims about the coordinator.                                           *)
(***************************************************************************)
AnUploadRejects ==
  \/ \E i \in 1..Len(uploads) : UploadPreCheckFails(i)
  \/ \E i \in 1..Len(uploads) : UploadPutFails(i)
  \/ \E i \in 1..Len(uploads) : \E resp \in GetResponses(store) : UploadVerifyFails(i, resp)

\* nothing is in flight, the effect has run, and the hook holds the record
\* that the last setFile wrote
Quiescent ==
  /\ ~effectPending
  /\ uploads = <<>> /\ fetches = <<>> /\ pendingSets = <<>>
  /\ file = FileOf(serverMeta)

\* the last setUri that took effect was setUri(null), and no setUri is pending
Cleared == nSets > 0 /\ pendingSets = <<>> /\ serverMeta = NullMeta

\* C1: at most one uploadFileDataUri call of the coordinator is in flight.
C1_AtMostOneUploadInFlight == Len(uploads) <= 1

\* the local content is the content that the last setUri stored
LocalHoldsLastSet ==
  /\ Truthy(LocalUri)
  /\ localMeta = LocalObject(serverMeta, LocalUri)
  /\ serverMeta.sha256 = getSha256HexFromBuffer(getBufferFromUri(LocalUri))

\* C2: when an upload resolves while the local content is that of the last
\* setUri, it is this content that the upload has PUT and verified: the
\* completion of an earlier upload never marks newer content as uploaded.
C2_UploadedOnlyForVerifiedContent ==
  [][ \A i \in 1..Len(uploads) : \A resp \in GetResponses(store) :
        (UploadResolves(i, resp) /\ LocalHoldsLastSet)
          => uploads[i].uri = LocalUri ]_vars

\* C3: an upload that rejects leaves isUploading = false and uploaded = false.
C3_FailedUploadLeavesLocalPending ==
  [][ AnUploadRejects => (~isUploading' /\ ~uploaded') ]_vars

\* C4: after setUri(null) the local content stays cleared and the busy flag
\* stays false, whatever effect runs and fetch completions follow.
C4_ClearedStaysCleared ==
  Cleared => (~Truthy(LocalUri) /\ ~Truthy(ExposedUri) /\ ~Busy)

\* C7: every upload the effect starts carries the hash of the local bytes.
C7_UploadStartsWithMatchingHash ==
  \A i \in 1..Len(uploads) :
    /\ uploads[i].hash = getSha256HexFromBuffer(getBufferFromUri(uploads[i].uri))
    /\ uploads[i].mime = getMimeFromUri(uploads[i].uri)
    /\ uploads[i].size = getSizeFromUri(uploads[i].uri)

\* C8: once the record reflects the last setUri(content, mime) and nothing is
\* in flight, the coordinator is not left in LOCAL_PENDING: the content was
\* uploaded and the busy flag is false.
C8_PendingContentGetsUploaded ==
  (Quiescent /\ Truthy(LocalUri) /\ ~isUploading) => (uploaded /\ ~Busy)

\* C10: once absence is confirmed the exposed reference is null.
C10_ConfirmedAbsentIsNull ==
  (localMeta.tag = "null" \/ (localMeta.tag = "object" /\ localMeta.uri = Null))
    => ExposedUri = Null

\* the mime a response carries: its content-type header, or the default
ResponseMime(resp) == IF resp.ct = <<>> THEN OCTET ELSE resp.ct

C6_ResolvesOnlyWhenVerified ==
  [][ /\ \A i \in 1..Len(uploads) : \A resp \in GetResponses(store) :
           UploadResolves(i, resp)
             => /\ resp.status = 200
                /\ resp.body = getBufferFromUri(uploads[i].uri)
                /\ Len(resp.body) = uploads[i].size
                /\ ResponseMime(resp) = uploads[i].mime
                /\ getSha256HexFromBuffer(resp.body) = uploads[i].hash
      /\ AnUploadRejects => UNCHANGED uploaded ]_vars

\* the one content ever set was PUT, verified and marked as uploaded
C6_Witness ==
  /\ nSets = 1 /\ pendingSets = <<>> /\ uploads = <<>>
  /\ localMeta = LocalObject(MetaOf(UriT, TXT), UriT)
  /\ store = ObjectOf(UriT)
  /\ uploaded /\ ~isUploading

\* C9, as the specification states it: after a resolve fetch has rejected, the effect issues no GET
\* before setUri is called again.
C9_NoRetryWithoutUserAction ==
  [][ EffectFetch => sinceFail = "none" ]_vars

\* C9, with delivery of the record counted as new input: after a resolve fetch has rejected, the effect issues no GET
\* before setUri is called again or the record is delivered again.
C9_NoRetryWithoutNewInput ==
  [][ EffectFetch => sinceFail # "failed" ]_vars

\* a resolve fetch has rejected, the effect has run since and nothing retries
C9_Witness ==
  /\ sinceFail = "failed" /\ ~effectPending /\ fetches = <<>>
  /\ LocalUri = Undef /\ uploaded /\ file.getUrl # NullUrl

(***************************************************************************)
(* setUri on its own (useFileUri.ts lines 75-105): one call on a freshly   *)
(* mounted coordinator, with contents of every shape.                      *)
(***************************************************************************)
MaxWideSets == 1

\* mime arguments: two image types, a text type, and the "" that the media
\* picker passes when the image has no mimeType
NoMime == <<>>

\* byte payloads: empty, of every length modulo 3, and images whose width is
\* below, at and above the maximum
WidePayloads ==
  { <<>>, <<0>>, <<1>>, <<1, 2>>, <<1, 2, 3>>, <<100>>, <<100, 9>>, <<101>>,
    <<200, 5>>, <<255, 255, 255, 0>> }

WideInputs ==
  { <<DataUri(m, b), arg>> : m \in {PNG, TXT}, b \in WidePayloads,
                             arg \in {PNG, TXT, NoMime} }

\* setUri(uri, mime) is called
SetUriAny(uri, mime) ==
  /\ nSets < MaxWideSets
  /\ SetUriCall(uri, mime)

\* Doc.parse throws in getDocFromUri (uri.ts line 45): setUri rejects before
\* it has set anything
SetUriRejects(i) ==
  /\ ~getDocFromUri(StoredUri(pendingSets[i].uri, pendingSets[i].mime)).ok
  /\ pendingSets' = RemoveAt(pendingSets, i)
  /\ UNCHANGED << file, serverMeta, store, localMeta, uploaded, isUploading,
                  effectPending, uploads, fetches, nSets, nSetFile, nRefresh,
                  sinceFail >>
  /\ FileFrame

SetNext ==
  \/ \E inp \in WideInputs : SetUriAny(inp[1], inp[2])
  \/ \E i \in 1..Len(pendingSets) : SetUriApply(i)
  \/ \E i \in 1..Len(pendingSets) : SetUriRejects(i)

SetSpec == Init /\ [][SetNext]_vars

\* the i-th pending setUri call settles in this step
SetUriSettles(i) == pendingSets' = RemoveAt(pendingSets, i)

\* C11: a setUri(content, mime) call that settles has stored the (possibly
\* compressed) bytes as the local content, set uploaded to false and called
\* setFile once, with the given mime and with the size and the SHA-256 of the
\* stored bytes.
C11_SetUriDescribesStoredBytes ==
  [][ \A i \in 1..Len(pendingSets) :
        SetUriSettles(i) =>
          LET p     == pendingSets[i]
              bytes == getBufferFromUri(StoredUri(p.uri, p.mime))
          IN  /\ localMeta'.tag = "object"
              /\ getBufferFromUri(localMeta'.uri) = bytes
              /\ ~uploaded'
              /\ nSetFile' = nSetFile + 1
              /\ serverMeta' = [ mime   |-> p.mime,
                                 size   |-> Len(bytes),
                                 sha256 |-> getSha256HexFromBuffer(bytes) ] ]_vars

\* C12: a setUri call that stores an image (by its mime argument) wider than
\* the maximum stores the result of compressImage, which is not the original;
\* it stores every other content unchanged; the record describes what is
\* stored.
C12_OversizedImageStoredCompressed ==
  [][ \A i \in 1..Len(pendingSets) :
        SetUriApply(i) =>
          LET p == pendingSets[i]
          IN  /\ (IsImageMime(p.mime) /\ ImageWidth(p.uri) > ResizeWidth)
                   => /\ localMeta'.uri = compressImage(p.uri)
                      /\ localMeta'.uri # p.uri
                      /\ ImageWidth(localMeta'.uri) <= ResizeWidth
              /\ ~(IsImageMime(p.mime) /\ ImageWidth(p.uri) > ResizeWidth)
                   => localMeta'.uri = p.uri
              /\ serverMeta'.size = getSizeFromUri(localMeta'.uri)
              /\ serverMeta'.sha256 =
                   getSha256HexFromBuffer(getBufferFromUri(localMeta'.uri)) ]_vars

\* an oversized image was set: the local content is the re-encoded image
C12_Witness ==
  /\ nSets = 1 /\ pendingSets = <<>>
  /\ localMeta.tag = "object"
  /\ localMeta.mime = PNG
  /\ localMeta.uri = DataUri(JPEG, <<ResizeWidth \div 8, 0>>)

(***************************************************************************)
(* The data-uri encoding on its own (uri.ts lines 9-49): a payload is      *)
(* encoded by getBase64FromBuffer and getUriFromDoc, as fetchFileDataUri   *)
(* does (uploadFileDataUri.ts lines 84-86), and decoded again.             *)
(***************************************************************************)
MaxPayloadLen == 3

ByteSamples == {0, 1, 63, 200, 255}

Payloads == UNION { [1..n -> ByteSamples] : n \in 0..MaxPayloadLen }

\* a content type with a parameter, as servers and FileReader produce them
TXTCharset == <<"text/plain", ";", "charset=utf-8">>

PayloadMimes == {PNG, TXT, OCTET, TXTCharset}

CodecInit ==
  /\ payload \in Payloads
  /\ payloadMime \in PayloadMimes
  /\ encoded = Undef
  /\ decoded = [done |-> FALSE, bytes |-> <<>>, mime |-> <<>>]
  /\ FileOff /\ UpFnOff /\ StorageOff /\ DoodleOff /\ CanvasOff /\ LaterOff

Encode ==
  /\ encoded = Undef
  /\ encoded' = getUriFromDoc(getBase64FromBuffer(payload), payloadMime)
  /\ UNCHANGED << payload, payloadMime, decoded >>
  /\ CodecFrame

Decode ==
  /\ encoded # Undef
  /\ ~decoded.done
  /\ decoded' = [ done  |-> TRUE,
                  bytes |-> getBufferFromUri(encoded),
                  mime  |-> getMimeFromUri(encoded) ]
  /\ UNCHANGED << payload, payloadMime, encoded >>
  /\ CodecFrame

CodecNext == Encode \/ Decode

CodecSpec == CodecInit /\ [][CodecNext]_vars

\* C13, for every mime: the decoded bytes and their hash are those of the
\* payload, and the decoded mime is the mime of the Doc.
C13_RoundTripAnyMime ==
  decoded.done =>
    /\ decoded.bytes = payload
    /\ getSha256HexFromBuffer(decoded.bytes) = getSha256HexFromBuffer(payload)
    /\ decoded.mime = payloadMime

\* C13, with the mime as getMimeFromUri reads it: the decoded bytes and their
\* hash are those of the payload; the decoded mime is the mime of the Doc up
\* to its first ";", which is all of it when it has no parameter.
C13_RoundTrip ==
  decoded.done =>
    /\ decoded.bytes = payload
    /\ getSha256HexFromBuffer(decoded.bytes) = getSha256HexFromBuffer(payload)
    /\ IndexOf(payloadMime, ";") < 0 => decoded.mime = payloadMime
    /\ IndexOf(payloadMime, ";") >= 0 =>
         decoded.mime = SubSeq(payloadMime, 1, IndexOf(payloadMime, ";"))

\* a payload whose base64 form is padded went through the encoding
C13_Witness ==
  /\ decoded.done
  /\ payload = <<200, 255>>
  /\ payloadMime = PNG
  /\ decoded.bytes = <<200, 255>>

(***************************************************************************)
(* src/src/file/FilePreview.tsx: the two Storage implementations and the   *)
(* getter of useLocalUri.  IndexedDB and the file system serve the calls   *)
(* one at a time, in the order in which they were made.                    *)
(***************************************************************************)
MaxOps == 3

Ids == {"id1", "id2"}

\* the values a caller stores, and the mark of an id that has no entry
Values == { <<"data", "a">>, <<"data", "b">> }
NoValue == <<"#none">>

NoEntries == [id \in Ids |-> NoValue]

\* error.message as the pieces that String.prototype.includes can find in it
NoFault == <<>>
Faults ==
  { <<"ENOENT", ": no such file or directory">>,
    <<"file not found">>,
    <<"The directory ", "does not exist">>,
    <<"NotFound", "Error">>,
    <<"File not found">>,
    <<"EACCES: permission denied">>,
    <<"QuotaExceededError">> }

Includes(message, piece) == \E i \in 1..Len(message) : message[i] = piece

\* how a call settled; "hung": its promise neither resolved nor rejected
Resolved(op, id, value) ==
  [op |-> op, id |-> id, kind |-> "resolved", value |-> value,
   ids |-> {}, message |-> NoFault]
ResolvedIds(ids) ==
  [op |-> "getIds", id |-> "", kind |-> "resolved", value |-> Null,
   ids |-> ids, message |-> NoFault]
Rejected(op, id, message) ==
  [op |-> op, id |-> id, kind |-> "rejected", value |-> Null,
   ids |-> {}, message |-> message]
Hung(op, id) ==
  [op |-> op, id |-> id, kind |-> "hung", value |-> Null,
   ids |-> {}, message |-> NoFault]
NoOutcome ==
  [op |-> "none", id |-> "", kind |-> "none", value |-> Null,
   ids |-> {}, message |-> NoFault]

\* asDataUri is imported from outside src/: a cast that returns its argument
asDataUri(uri) == uri

\* ExpoFileStorage.getFileUri
getFileUri(id) == <<"file", id>>

\* indexedDB.open("localUriDB", 1): the database is created by the first open
\* and only then is onupgradeneeded called, which creates the object store
\* or, in deleteUri, does not
IdbOpen(d, creates) ==
  IF d.exists THEN d
  ELSE [exists |-> TRUE, hasStore |-> creates, rows |-> d.rows]

\* onsuccess: db.transaction([objectStoreName]) throws NotFoundError when the
\* object store is missing; the exception leaves the handler and the promise
\* is never settled
IdbSettle(d, op, id, value) ==
  IF d.hasStore THEN Resolved(op, id, value) ELSE Hung(op, id)

FreshDb == [exists |-> FALSE, hasStore |-> FALSE, rows |-> NoEntries]
FreshDirectory == [dir |-> FALSE, content |-> NoEntries]

StorageInit ==
  /\ impl \in {"IndexedDBStorage", "ExpoFileStorage"}
  /\ db = FreshDb
  /\ files = FreshDirectory
  /\ stored = NoEntries
  /\ outcome = NoOutcome
  /\ nOps = 0
  /\ FileOff /\ CodecOff /\ UpFnOff /\ DoodleOff /\ CanvasOff /\ LaterOff

\* what the id's entry holds
Entry(id) == IF impl = "IndexedDBStorage" THEN db.rows[id] ELSE files.content[id]

\* the value behind what getUri or setUri resolved with
Deref(value) ==
  IF Len(value) = 2 /\ value[1] = "file" THEN files.content[value[2]] ELSE value

\* IndexedDBStorage.getUri (lines 225-269); a fault is an error of the
\* open request, reported by request.onerror
IdbGetUriOutcome(id, fault) ==
  IF fault # NoFault
    THEN Rejected("getUri", id, <<"IndexedDB error: ">> \o fault)
    ELSE LET d == IdbOpen(db, TRUE)
         IN  IdbSettle(d, "getUri", id,
                       IF d.rows[id] = NoValue THEN Null ELSE d.rows[id])

IdbGetUri(id, fault) ==
  /\ db' = IF fault # NoFault THEN db ELSE IdbOpen(db, TRUE)
  /\ UNCHANGED << files, stored >>

\* ExpoFileStorage.getUri (lines 440-455); a fault is an error thrown by
\* FileSystem.getInfoAsync
ExpoGetUriOutcome(id, fault) ==
  IF fault # NoFault
    THEN IF Includes(fault, "ENOENT")
           THEN Resolved("getUri", id, Null)
           ELSE Rejected("getUri", id, fault)
    ELSE Resolved("getUri", id,
                  IF files.content[id] = NoValue THEN Null
                  ELSE asDataUri(getFileUri(id)))

ExpoGetUri(id, fault) == UNCHANGED << db, files, stored >>

\* storage.getUri(id)
GetUriOutcome(id, fault) ==
  IF impl = "IndexedDBStorage"
    THEN IdbGetUriOutcome(id, fault)
    ELSE ExpoGetUriOutcome(id, fault)

\* a getter that takes every storage error for "not found"
getterSwallowsAll(o) ==
  IF o.kind = "rejected" THEN Resolved("getter", o.id, Null)
  ELSE [o EXCEPT !.op = "getter"]

\* the getter of useLocalUri (lines 136-154) around the outcome o of
\* storage.getUri(id)
getter(o) ==
  IF o.kind = "rejected"
    THEN IF \/ Includes(o.message, "file not found")
            \/ Includes(o.message, "does not exist")
            \/ Includes(o.message, "NotFound")
            \/ Includes(o.message, "ENOENT")
           THEN Resolved("getter", o.id, Null)
           ELSE Rejected("getter", o.id, o.message)
    ELSE [o EXCEPT !.op = "getter"]

\* IndexedDBStorage.deleteUri (lines 329-373)
IdbDeleteUri(op, id) ==
  LET d == IdbOpen(db, FALSE)
  IN  /\ db' = IF d.hasStore THEN [d EXCEPT !.rows[id] = NoValue] ELSE d
      /\ outcome' = IdbSettle(d, op, id, Null)
      /\ stored' = IF d.hasStore THEN [stored EXCEPT ![id] = NoValue] ELSE stored
      /\ UNCHANGED files

\* ExpoFileStorage.deleteUri (lines 476-485)
ExpoDeleteUri(op, id) ==
  /\ files' = [files EXCEPT !.content[id] = NoValue]
  /\ outcome' = Resolved(op, id, Null)
  /\ stored' = [stored EXCEPT ![id] = NoValue]
  /\ UNCHANGED db

\* IndexedDBStorage.setUri (lines 276-327)
IdbSetUri(id, uri) ==
  IF uri = Null THEN IdbDeleteUri("setUri", id)
  ELSE LET d == IdbOpen(db, TRUE)
       IN  /\ db' = IF d.hasStore THEN [d EXCEPT !.rows[id] = uri] ELSE d
           /\ outcome' = IdbSettle(d, "setUri", id, uri)
           /\ stored' = IF d.hasStore THEN [stored EXCEPT ![id] = uri] ELSE stored
           /\ UNCHANGED files

\* ExpoFileStorage.setUri (lines 457-474)
ExpoSetUri(id, uri) ==
  IF uri = Null THEN ExpoDeleteUri("setUri", id)
  ELSE /\ files' = [dir |-> TRUE, content |-> [files.content EXCEPT ![id] = uri]]
       /\ outcome' = Resolved("setUri", id, asDataUri(getFileUri(id)))
       /\ stored' = [stored EXCEPT ![id] = uri]
       /\ UNCHANGED db

\* IndexedDBStorage.getIds (lines 375-424)
IdbGetIds ==
  LET d == IdbOpen(db, TRUE)
  IN  /\ db' = d
      /\ outcome' = IF d.hasStore
                      THEN ResolvedIds({id \in Ids : d.rows[id] # NoValue})
                      ELSE Hung("getIds", "")
      /\ UNCHANGED << files, stored >>

\* ExpoFileStorage.getIds (lines 487-505)
ExpoGetIds ==
  /\ files' = [files EXCEPT !.dir = TRUE]
  /\ outcome' = ResolvedIds({id \in Ids : files.content[id] # NoValue})
  /\ UNCHANGED << db, stored >>

Called ==
  /\ nOps < MaxOps
  /\ nOps' = nOps + 1
  /\ UNCHANGED impl
  /\ StorageFrame

GetUri(id) ==
  /\ Called
  /\ outcome' = GetUriOutcome(id, NoFault)
  /\ IF impl = "IndexedDBStorage" THEN IdbGetUri(id, NoFault) ELSE ExpoGetUri(id, NoFault)

\* the getter of useLocalUri runs; the backend fails with the message fault,
\* or does not fail
Getter(id, fault) ==
  /\ Called
  /\ outcome' = getter(GetUriOutcome(id, fault))
  /\ IF impl = "IndexedDBStorage" THEN IdbGetUri(id, fault) ELSE ExpoGetUri(id, fault)

SetUri(id, uri) ==
  /\ Called
  /\ IF impl = "IndexedDBStorage" THEN IdbSetUri(id, uri) ELSE ExpoSetUri(id, uri)

DeleteUri(id) ==
  /\ Called
  /\ IF impl = "IndexedDBStorage"
       THEN IdbDeleteUri("deleteUri", id)
       ELSE ExpoDeleteUri("deleteUri", id)

GetIds ==
  /\ Called
  /\ IF impl = "IndexedDBStorage" THEN IdbGetIds ELSE ExpoGetIds

StorageNext ==
  \/ \E id \in Ids : GetUri(id)
  \/ \E id \in Ids : \E uri \in Values \cup {Null} : SetUri(id, uri)
  \/ \E id \in Ids : DeleteUri(id)
  \/ GetIds
  \/ \E id \in Ids : \E fault \in Faults \cup {NoFault} : Getter(id, fault)

StorageSpec == StorageInit /\ [][StorageNext]_vars

\* C14: a getUri(id) call resolves, with null exactly when the id's last
\* completed call deleted its entry or none ever stored one, and otherwise
\* with a reference to the value last stored; setUri(id, null) resolves to
\* null and leaves no entry, like deleteUri(id).
C14_GetUriReturnsLastStored ==
  /\ outcome.op = "getUri" =>
       /\ outcome.kind = "resolved"
       /\ (outcome.value = Null) <=> (stored[outcome.id] = NoValue)
       /\ outcome.value # Null => Deref(outcome.value) = stored[outcome.id]
  /\ (outcome.op = "setUri" /\ outcome.value = Null) =>
       /\ outcome.kind = "resolved"
       /\ Entry(outcome.id) = NoValue

\* C15: every deleteUri(id) call settles with null, whether or not the id
\* has an entry and whatever was called before, and leaves the entries of
\* the other ids as they were.
C15_DeleteUriIdempotent ==
  [][ \A id \in Ids :
        DeleteUri(id) =>
          /\ outcome'.kind = "resolved"
          /\ outcome'.value = Null
          /\ Entry(id)' = NoValue
          /\ \A other \in Ids \ {id} : Entry(other)' = Entry(other) ]_vars

\* the pieces of a message by which the getter recognises "not found"
Markers == {"file not found", "does not exist", "NotFound", "ENOENT"}
DenotesNotFound(message) == \E m \in Markers : Includes(message, m)

\* C16: when storage.getUri rejects, the getter resolves with null if the
\* error's message denotes not-found and rejects with the same message if
\* it does not; what storage.getUri resolves with, the getter resolves with.
C16_GetterMapsNotFoundToNull ==
  [][ \A id \in Ids : \A fault \in Faults \cup {NoFault} :
        Getter(id, fault) =>
          LET o == GetUriOutcome(id, fault)
          IN  /\ (o.kind = "rejected" /\ DenotesNotFound(o.message))
                   => (outcome'.kind = "resolved" /\ outcome'.value = Null)
              /\ (o.kind = "rejected" /\ ~DenotesNotFound(o.message))
                   => (outcome'.kind = "rejected" /\ outcome'.message = o.message)
              /\ o.kind = "resolved"
                   => (outcome'.kind = "resolved" /\ outcome'.value = o.value) ]_vars

\* the getter has passed on an error that does not denote not-found
C16_Witness ==
  /\ outcome.op = "getter"
  /\ outcome.kind = "rejected"
  /\ outcome.message = <<"IndexedDB error: ", "QuotaExceededError">>

(***************************************************************************)
(* src/src/DoodlePad/DoodlePad.tsx: the component (lines 931-1131).  React *)
(* runs the effect of a render before it handles the next update, so an    *)
(* event is handled only when no effect is due.                            *)
(***************************************************************************)
MaxEvents == 6

\* values of the props doodleUri[0] and backgroundUri
DoodleUris == {"undefined", "null", "d1", "d2"}
BackgroundUris == {"undefined", "bg"}

\* line 1064: the component renders null until both props are defined
Rendered(d, b) == d # "undefined" /\ b # "undefined"

\* the WebView is a child of the Modal, which mounts its children when it is
\* visible: a WebView that is mounted loads doodlePadHTML and reports onLoad
Mounted(w, d, b, visible) ==
  IF ~Rendered(d, b) THEN "none"
  ELSE IF visible /\ w = "none" THEN "loading"
  ELSE w

DoodleInit ==
  /\ doodleUri \in DoodleUris
  /\ hasSetter \in BOOLEAN
  /\ backgroundUri \in BackgroundUris
  /\ modalVisible = FALSE
  /\ webViewReady = FALSE
  /\ webView = "none"
  /\ effectDue = TRUE
  /\ loadedSinceOpen = FALSE
  /\ initFor = "none"
  /\ lastMessage = "none"
  /\ nEvents = 0
  /\ FileOff /\ CodecOff /\ UpFnOff /\ StorageOff /\ CanvasOff /\ LaterOff

Handled ==
  /\ ~effectDue
  /\ nEvents < MaxEvents
  /\ nEvents' = nEvents + 1
  /\ DoodleFrame

\* the condition under which the effect posts 'init' (lines 952-958)
PostsInit ==
  /\ modalVisible
  /\ webViewReady
  /\ webView # "none"
  /\ backgroundUri # "undefined"
  /\ doodleUri # "undefined"

\* the effect without its first line
InitEffectKeepsReady ==
  /\ effectDue
  /\ effectDue' = FALSE
  /\ initFor' = IF PostsInit THEN doodleUri ELSE initFor
  /\ UNCHANGED << doodleUri, hasSetter, backgroundUri, modalVisible,
                  webViewReady, webView, loadedSinceOpen, lastMessage, nEvents >>
  /\ DoodleFrame

\* the effect (lines 950-984): it resets webViewReady when the modal is
\* hidden and posts 'init' when the modal is visible and the WebView ready
InitEffect ==
  /\ effectDue
  /\ webViewReady' = IF webViewReady /\ ~modalVisible THEN FALSE ELSE webViewReady
  /\ effectDue' = (webViewReady /\ ~modalVisible)
  /\ initFor' = IF PostsInit THEN doodleUri ELSE initFor
  /\ UNCHANGED << doodleUri, hasSetter, backgroundUri, modalVisible, webView,
                  loadedSinceOpen, lastMessage, nEvents >>
  /\ DoodleFrame

\* the preview is pressed (lines 1068-1071)
Open ==
  /\ Handled
  /\ Rendered(doodleUri, backgroundUri)
  /\ ~modalVisible
  /\ ~(~hasSetter /\ doodleUri = "null")
  /\ modalVisible' = TRUE
  /\ webView' = Mounted(webView, doodleUri, backgroundUri, TRUE)
  /\ loadedSinceOpen' = FALSE
  /\ initFor' = "none"
  /\ effectDue' = TRUE
  /\ UNCHANGED << doodleUri, hasSetter, backgroundUri, webViewReady, lastMessage >>

\* cancelCanvas (lines 1028-1030), the button Cancel or Close
Cancel ==
  /\ Handled
  /\ modalVisible
  /\ Rendered(doodleUri, backgroundUri)
  /\ modalVisible' = FALSE
  /\ effectDue' = TRUE
  /\ UNCHANGED << doodleUri, hasSetter, backgroundUri, webViewReady, webView,
                  loadedSinceOpen, initFor, lastMessage >>

\* the hidden Modal unmounts the WebView
Unmount ==
  /\ ~effectDue
  /\ ~modalVisible
  /\ webView # "none"
  /\ webView' = "none"
  /\ UNCHANGED << doodleUri, hasSetter, backgroundUri, modalVisible,
                  webViewReady, effectDue, loadedSinceOpen, initFor,
                  lastMessage, nEvents >>
  /\ DoodleFrame

\* handleWebViewLoad (lines 1060-1063)
OnLoad ==
  /\ Handled
  /\ webView = "loading"
  /\ webView' = "loaded"
  /\ webViewReady' = TRUE
  /\ loadedSinceOpen' = TRUE
  /\ effectDue' = ~webViewReady
  /\ UNCHANGED << doodleUri, hasSetter, backgroundUri, modalVisible, initFor,
                  lastMessage >>

MessageSources == {"webview-canvas", "webview-log", "react-devtools-bridge"}
MessagePayloads == {"d1", "d2", "#notAString"}

\* onMessage that does not look for the setter
OnMessageForgetsSetter(source, data) ==
  /\ Handled
  /\ webView # "none"
  /\ lastMessage' = source
  /\ IF source = "webview-canvas" /\ data # "#notAString"
       THEN /\ doodleUri' = data
            /\ modalVisible' = FALSE
            /\ effectDue' = TRUE
       ELSE UNCHANGED << doodleUri, modalVisible, effectDue >>
  /\ UNCHANGED << hasSetter, backgroundUri, webViewReady, webView,
                  loadedSinceOpen, initFor >>

\* onMessage (lines 998-1022)
OnMessage(source, data) ==
  /\ Handled
  /\ webView # "none"
  /\ lastMessage' = source
  /\ IF source = "webview-canvas" /\ hasSetter /\ data # "#notAString"
       THEN /\ doodleUri' = data
            /\ modalVisible' = FALSE
            /\ effectDue' = TRUE
       ELSE UNCHANGED << doodleUri, modalVisible, effectDue >>
  /\ UNCHANGED << hasSetter, backgroundUri, webViewReady, webView,
                  loadedSinceOpen, initFor >>

\* the parent renders the component with another doodleUri[0]
ParentDelivers(uri) ==
  /\ Handled
  /\ uri # doodleUri
  /\ doodleUri' = uri
  /\ webView' = Mounted(webView, uri, backgroundUri, modalVisible)
  /\ effectDue' = TRUE
  /\ UNCHANGED << hasSetter, backgroundUri, modalVisible, webViewReady,
                  loadedSinceOpen, initFor, lastMessage >>

DoodleNext ==
  \/ InitEffect
  \/ Open
  \/ Cancel
  \/ Unmount
  \/ OnLoad
  \/ \E source \in MessageSources : \E data \in MessagePayloads : OnMessage(source, data)
  \/ \E uri \in DoodleUris : ParentDelivers(uri)

DoodleSpec == DoodleInit /\ [][DoodleNext]_vars

InitPostedWhenReady ==
  (~effectDue /\ PostsInit) => initFor = doodleUri

\* once the effect has run, webViewReady is false while the modal is hidden
ReadyResetWhenHidden ==
  (~effectDue /\ ~modalVisible) => ~webViewReady

NoCall == [uri |-> Undef, size |-> NullNum, mime |-> Undef, hash |-> NullHash]
NoError == [name |-> "", cause |-> ""]

\* the arguments of a call: local data uris, and expected sizes, mimes and
\* hashes that agree or disagree with them
CallUris == {UriA, UriT, UriC, DataUri(PNG, <<1, 2>>)}
CallSizes == {0, 1, 2, 3}
CallMimes == {PNG, JPEG, TXT}
CallHashes == { getSha256HexFromBuffer(b) : b \in {<<1>>, <<2>>, <<1, 2>>} }
Calls ==
  { [uri |-> u, size |-> n, mime |-> m, hash |-> h] :
      u \in CallUris, n \in CallSizes, m \in CallMimes, h \in CallHashes }

\* the message of the first assertion that fails before the PUT
FailedAssertion(u) ==
  LET putBuffer == getBufferFromUri(u.uri)
  IN  IF Len(putBuffer) # u.size THEN "uploadFileDataUriE1"
      ELSE IF getMimeFromUri(u.uri) # u.mime THEN "uploadFileDataUriE2"
      ELSE IF getSha256HexFromBuffer(putBuffer) # u.hash THEN "uploadFileDataUriE3"
      ELSE "none"

\* the catch: whatever was thrown is wrapped in ContextError("uploadFileDataUriE")
ContextError(cause) == [name |-> "uploadFileDataUriE", cause |-> cause]

UpFnInit ==
  /\ upCall = NoCall
  /\ upPc = "idle"
  /\ upRequests = <<>>
  /\ upRemote = NoObject
  /\ upError = NoError
  /\ FileOff /\ CodecOff /\ StorageOff /\ DoodleOff /\ CanvasOff /\ LaterOff

\* lines 28-35 and the catch: an assertion before the PUT fails
CallRejects(u) ==
  /\ upPc = "idle"
  /\ ~UploadPreCheck(u)
  /\ upCall' = u
  /\ upPc' = "rejected"
  /\ upError' = ContextError(FailedAssertion(u))
  /\ UNCHANGED << upRequests, upRemote >>
  /\ UpFnFrame

\* lines 28-36: the assertions hold and the PUT is sent
CallPuts(u) ==
  /\ upPc = "idle"
  /\ UploadPreCheck(u)
  /\ upCall' = u
  /\ upPc' = "put"
  /\ upRequests' = Append(upRequests, "PUT")
  /\ UNCHANGED << upRemote, upError >>
  /\ UpFnFrame

\* line 36: axios.put rejects
PutFails ==
  /\ upPc = "put"
  /\ upPc' = "rejected"
  /\ upError' = ContextError("axios")
  /\ UNCHANGED << upCall, upRequests, upRemote >>
  /\ UpFnFrame

\* lines 36-41: axios.put resolves and fetchFileDataUri sends the GET
PutDone ==
  /\ upPc = "put"
  /\ upRemote' = ObjectOf(upCall.uri)
  /\ upRequests' = Append(upRequests, "GET")
  /\ upPc' = "get"
  /\ UNCHANGED << upCall, upError >>
  /\ UpFnFrame

\* lines 41-50: the GET answers and the assertions E4..E7 hold
GetVerifies(resp) ==
  /\ upPc = "get"
  /\ UploadVerify(upCall, resp)
  /\ upPc' = "resolved"
  /\ UNCHANGED << upCall, upRequests, upRemote, upError >>
  /\ UpFnFrame

\* lines 41-50 and the catch: the GET fails or an assertion E4..E7 fails
GetRejects(resp) ==
  /\ upPc = "get"
  /\ ~UploadVerify(upCall, resp)
  /\ upPc' = "rejected"
  /\ upError' = ContextError("verify")
  /\ UNCHANGED << upCall, upRequests, upRemote >>
  /\ UpFnFrame

UpFnNext ==
  \/ \E u \in Calls : CallRejects(u)
  \/ \E u \in Calls : CallPuts(u)
  \/ PutFails
  \/ PutDone
  \/ \E resp \in GetResponses(upRemote) : GetVerifies(resp)
  \/ \E resp \in GetResponses(upRemote) : GetRejects(resp)

UpFnSpec == UpFnInit /\ [][UpFnNext]_vars

\* the expected size, mime and hash of the call equal those of its data uri
ArgsAgree ==
  /\ Len(getBufferFromUri(upCall.uri)) = upCall.size
  /\ getMimeFromUri(upCall.uri) = upCall.mime
  /\ getSha256HexFromBuffer(getBufferFromUri(upCall.uri)) = upCall.hash

\* C19: a request has been sent only for a call whose expected size, mime
\* and hash equal the byte length, the embedded mime and the SHA-256 of the
\* local data uri; a call for which one of the three differs is rejected
\* with the error "uploadFileDataUriE", caused by the assertion that failed,
\* and has sent no request at all.
C19_PreChecksBeforePut ==
  upPc # "idle" =>
    /\ upRequests # <<>> => ArgsAgree
    /\ ~ArgsAgree =>
         /\ upPc = "rejected"
         /\ upRequests = <<>>
         /\ upError.name = "uploadFileDataUriE"
         /\ upError.cause \in
              {"uploadFileDataUriE1", "uploadFileDataUriE2", "uploadFileDataUriE3"}

\* a call whose size and mime agree and whose hash alone differs
C19_Witness ==
  /\ upPc = "rejected"
  /\ upRequests = <<>>
  /\ Len(getBufferFromUri(upCall.uri)) = upCall.size
  /\ getMimeFromUri(upCall.uri) = upCall.mime
  /\ getSha256HexFromBuffer(getBufferFromUri(upCall.uri)) # upCall.hash
  /\ upError = ContextError("uploadFileDataUriE3")

(***************************************************************************)
(* src/src/DoodlePad/DoodlePad.tsx: the canvas script of doodlePadHTML.    *)
(* Arrays are objects: history.push(currentPath) stores a reference to the *)
(* array that currentPath refers to.  currentPath holds the points of that *)
(* array, and an entry of the history that refers to the same array is     *)
(* marked shared; when currentPath is given a new array, the shared        *)
(* entries keep the points of the old one.  Panning, zooming and the       *)
(* pixels of the canvas are left out.                                      *)
(***************************************************************************)
MaxLog == 3
MaxPoints == 2

\* coordinates of the pointer on the canvas: where a mousedown lands, and
\* where the pointer moves
StartPoints == {1}
Points == {1, 2}
Modes == {"pencil", "circle", "square"}

NoShape ==
  [kind |-> "null", shared |-> FALSE, points |-> <<>>, start |-> 0, end |-> 0]
\* the entry that history.push(currentPath) adds
PathItem ==
  [kind |-> "path", shared |-> TRUE, points |-> <<>>, start |-> 0, end |-> 0]
ShapeItem(shape, start, end) ==
  [kind |-> shape, shared |-> FALSE, points |-> <<>>, start |-> start, end |-> end]

NoGesture == [mode |-> "pencil", points |-> <<>>]

\* the history once currentPath refers to a new array: the entries that
\* referred to the old array keep its points cp
Unshare(h, cp) ==
  [ i \in 1..Len(h) |->
      IF h[i].shared THEN [h[i] EXCEPT !.shared = FALSE, !.points = cp] ELSE h[i] ]

\* an entry of the history or of the log by value
Stroke(kind, points, start, end) ==
  [kind |-> kind, points |-> points, start |-> start, end |-> end]

ValueOf(item, cp) ==
  IF item.kind = "path"
    THEN Stroke("path", IF item.shared THEN cp ELSE item.points, 0, 0)
    ELSE Stroke(item.kind, <<>>, item.start, item.end)

HistoryValue(h, cp) == [i \in 1..Len(h) |-> ValueOf(h[i], cp)]

\* what a gesture draws: a path through its points, or a shape from its
\* first point to its last
GestureStroke(g) ==
  IF g.mode = "pencil" THEN Stroke("path", g.points, 0, 0)
  ELSE Stroke(g.mode, <<>>, g.points[1], g.points[Len(g.points)])

\* The log of a stroke that is interrupted is dropped, and when that stroke
\* ends or another begins, the log starts again from the entries that the
\* history then holds.
Logged(log, entry, broken) == IF broken THEN <<>> ELSE Append(log, entry)
Resumed(log, h, cp, broken) == IF broken THEN HistoryValue(h, cp) ELSE log

CanvasInit ==
  /\ drawing = FALSE
  /\ drawingMode = "pencil"
  /\ currentPath = <<>>
  /\ currentShape = NoShape
  /\ history = <<>>
  /\ doodleImage = "null"
  /\ gesture = NoGesture
  /\ opLog = <<>>
  /\ interrupted = FALSE
  /\ FileOff /\ CodecOff /\ UpFnOff /\ StorageOff /\ DoodleOff /\ LaterOff

\* mousedown of the left button at p, inside or outside the canvas
startDrawing(inside, p) ==
  /\ IF inside
       THEN /\ drawing' = TRUE
            /\ gesture' = [mode |-> drawingMode, points |-> <<p>>]
            /\ IF drawingMode = "pencil"
                 THEN /\ currentPath' = <<p>>
                      /\ history' = Unshare(history, currentPath)
                      /\ UNCHANGED currentShape
                 ELSE /\ currentShape' = ShapeItem(drawingMode, p, p)
                      /\ UNCHANGED << currentPath, history >>
            /\ opLog' = Resumed(opLog, history', currentPath', interrupted)
            /\ interrupted' = FALSE
       ELSE UNCHANGED << drawing, gesture, currentPath, history, currentShape,
                         opLog, interrupted >>
  /\ UNCHANGED << drawingMode, doodleImage >>
  /\ CanvasFrame

\* mousemove to p; currentShape.end throws when currentShape is null
draw(p) ==
  /\ IF drawing
       THEN /\ Len(gesture.points) < MaxPoints
            /\ gesture' = [gesture EXCEPT !.points = Append(@, p)]
            /\ IF drawingMode = "pencil"
                 THEN /\ Len(currentPath) < MaxPoints
                      /\ currentPath' = Append(currentPath, p)
                      /\ UNCHANGED currentShape
                 ELSE /\ currentShape' =
                           IF currentShape = NoShape THEN NoShape
                           ELSE [currentShape EXCEPT !.end = p]
                      /\ UNCHANGED currentPath
       ELSE UNCHANGED << gesture, currentPath, currentShape >>
  /\ UNCHANGED << drawing, drawingMode, history, doodleImage, opLog, interrupted >>
  /\ CanvasFrame

\* endDrawing that forgets a pencil path
endDrawingShapesOnly(e) ==
  /\ IF drawing
       THEN /\ Len(opLog) < MaxLog /\ Len(history) < MaxLog
            /\ IF drawingMode # "pencil" /\ currentShape # NoShape
                 THEN /\ history' = Append(history, currentShape)
                      /\ currentShape' = NoShape
                 ELSE UNCHANGED << history, currentShape >>
            /\ opLog' = IF interrupted THEN HistoryValue(history', currentPath)
                        ELSE Append(opLog, GestureStroke(gesture))
            /\ interrupted' = FALSE
            /\ drawing' = FALSE
            /\ gesture' = NoGesture
       ELSE UNCHANGED << opLog, history, currentShape, drawing, gesture, interrupted >>
  /\ UNCHANGED << drawingMode, currentPath, doodleImage >>
  /\ CanvasFrame

\* mouseup or mouseleave
endDrawing(e) ==
  /\ IF drawing
       THEN /\ Len(opLog) < MaxLog /\ Len(history) < MaxLog
            /\ IF drawingMode = "pencil"
                 THEN /\ history' = Append(history, PathItem)
                      /\ UNCHANGED currentShape
                 ELSE IF currentShape # NoShape
                   THEN /\ history' = Append(history, currentShape)
                        /\ currentShape' = NoShape
                   ELSE UNCHANGED << history, currentShape >>
            /\ opLog' = IF interrupted THEN HistoryValue(history', currentPath)
                        ELSE Append(opLog, GestureStroke(gesture))
            /\ interrupted' = FALSE
            /\ drawing' = FALSE
            /\ gesture' = NoGesture
       ELSE UNCHANGED << opLog, history, currentShape, drawing, gesture, interrupted >>
  /\ UNCHANGED << drawingMode, currentPath, doodleImage >>
  /\ CanvasFrame

\* a clear during a stroke interrupts the stroke
clearCanvas ==
  /\ Len(opLog) < MaxLog
  /\ history' = <<>>
  /\ currentPath' = <<>>
  /\ currentShape' = NoShape
  /\ doodleImage' = "null"
  /\ interrupted' = drawing
  /\ opLog' = Logged(opLog, Stroke("clear", <<>>, 0, 0), drawing)
  /\ UNCHANGED << drawing, drawingMode, gesture >>
  /\ CanvasFrame

undoCanvas ==
  /\ Len(opLog) < MaxLog
  /\ opLog' = Logged(opLog, Stroke("undo", <<>>, 0, 0), interrupted)
  /\ history' = IF Len(history) > 0
                  THEN SubSeq(history, 1, Len(history) - 1)
                  ELSE history
  /\ UNCHANGED << drawing, drawingMode, currentPath, currentShape, doodleImage,
                  gesture, interrupted >>
  /\ CanvasFrame

\* a click on a button of the shape palette; a change of mode during a
\* stroke interrupts the stroke
setDrawingShape(shape) ==
  /\ drawingMode' = shape
  /\ interrupted' = (interrupted \/ (drawing /\ shape # drawingMode))
  /\ opLog' = IF interrupted' THEN <<>> ELSE opLog
  /\ UNCHANGED << drawing, currentPath, currentShape, history, doodleImage, gesture >>
  /\ CanvasFrame

\* the 'init' message: loadDoodleImage, and initializeShapePalette when
\* the pad is editable
handleInitMessage(hasDoodle, isEditable) ==
  /\ doodleImage' = IF hasDoodle THEN "img" ELSE "null"
  /\ drawingMode' = IF isEditable THEN "pencil" ELSE drawingMode
  /\ interrupted' = (interrupted \/ (drawing /\ drawingMode' # drawingMode))
  /\ opLog' = IF interrupted' THEN <<>> ELSE opLog
  /\ UNCHANGED << drawing, currentPath, currentShape, history, gesture >>
  /\ CanvasFrame

CanvasNext ==
  \/ \E inside \in BOOLEAN : \E p \in StartPoints : startDrawing(inside, p)
  \/ \E p \in Points : draw(p)
  \/ \E e \in {"mouseup", "mouseleave"} : endDrawing(e)
  \/ clearCanvas
  \/ undoCanvas
  \/ \E shape \in Modes : setDrawingShape(shape)
  \/ \E hasDoodle \in BOOLEAN : \E isEditable \in BOOLEAN :
       handleInitMessage(hasDoodle, isEditable)

CanvasSpec == CanvasInit /\ [][CanvasNext]_vars

\* the history that a log of completed strokes, undo and clear calls leaves
RECURSIVE Expected(_)
Expected(log) ==
  IF log = <<>> THEN <<>>
  ELSE LET before == Expected(SubSeq(log, 1, Len(log) - 1))
           last   == log[Len(log)]
       IN  IF last.kind = "clear" THEN <<>>
           ELSE IF last.kind = "undo"
             THEN IF before = <<>> THEN <<>>
                  ELSE SubSeq(before, 1, Len(before) - 1)
           ELSE Append(before, last)

EarlyOff == FileOff /\ CodecOff /\ UpFnOff /\ StorageOff /\ DoodleOff /\ CanvasOff

(***************************************************************************)
(* JavaScript numbers and strings of digits.  A cron string is held as the *)
(* sequence of the fields that cron.trim().split(" ") yields, and a field  *)
(* as the sequence of its characters.                                      *)
(***************************************************************************)
Decimals == <<"0", "1", "2", "3", "4", "5", "6", "7", "8", "9">>
IsDecimal(c) == \E i \in 1..10 : Decimals[i] = c
DecimalValue(c) == (CHOOSE i \in 1..10 : Decimals[i] = c) - 1

RECURSIVE DecimalPrefix(_)
DecimalPrefix(s) ==
  IF s = <<>> THEN <<>>
  ELSE IF IsDecimal(s[1]) THEN <<s[1]>> \o DecimalPrefix(Tail(s))
  ELSE <<>>

RECURSIVE DecimalsValue(_)
DecimalsValue(d) ==
  IF d = <<>> THEN 0
  ELSE DecimalsValue(SubSeq(d, 1, Len(d) - 1)) * 10 + DecimalValue(d[Len(d)])

\* parseInt(s, 10): an optional sign and the longest run of digits that
\* follows; NaN when there is no digit
parseInt(s) ==
  LET signed == s # <<>> /\ s[1] \in {"-", "+"}
      digits == DecimalPrefix(IF signed THEN Tail(s) ELSE s)
  IN  [ nan   |-> digits = <<>>,
        value |-> IF s # <<>> /\ s[1] = "-"
                    THEN 0 - DecimalsValue(digits) ELSE DecimalsValue(digits) ]

RECURSIVE NatToString(_)
NatToString(n) ==
  IF n < 10 THEN <<Decimals[n + 1]>>
  ELSE NatToString(n \div 10) \o <<Decimals[(n % 10) + 1]>>

\* Number.prototype.toString and String(n) of an integer
toString(n) == IF n < 0 THEN <<"-">> \o NatToString(0 - n) ELSE NatToString(n)

\* the operator % of JavaScript: the remainder has the sign of the dividend
JsMod(a, b) == IF a >= 0 THEN a % b ELSE 0 - ((0 - a) % b)

(***************************************************************************)
(* src/src/utils/applyCronOffset.ts, and the day-aware applyCronOffset of  *)
(* src/unnamed/part_004.                                                   *)
(***************************************************************************)
Star == <<"*">>

\* ((totalSeconds % 86400) + 86400) % 86400 without the second remainder
normalizedNoWrap(totalSeconds) == JsMod(totalSeconds, 86400)

\* ((totalSeconds % 86400) + 86400) % 86400
normalized(totalSeconds) == JsMod(JsMod(totalSeconds, 86400) + 86400, 86400)

\* utils/applyCronOffset.ts
applyCronOffset(cron, offsetSeconds) ==
  IF Len(cron) < 5 THEN cron
  ELSE IF cron[1] = Star \/ cron[2] = Star THEN cron
  ELSE LET minute == parseInt(cron[1])
           hour   == parseInt(cron[2])
       IN  IF minute.nan \/ hour.nan THEN cron
           ELSE LET totalSeconds == hour.value * 3600 + minute.value * 60 + offsetSeconds
                    norm         == normalized(totalSeconds)
                    newHour      == norm \div 3600
                    newMinute    == (norm % 3600) \div 60
                IN  <<toString(newMinute), toString(newHour)>>
                      \o SubSeq(cron, 3, Len(cron))

\* p.includes(",") || p.includes("-") || p.includes("/")
IsComplex(p) == Includes(p, ",") \/ Includes(p, "-") \/ Includes(p, "/")

\* String((dow + daysOffset) % 7), without the remainder of daysOffset
shiftDayOfWeekPlain(dow, daysOffset) == JsMod(dow + daysOffset, 7)

\* (dow + (daysOffset % 7) + 7) % 7
shiftDayOfWeek(dow, daysOffset) == JsMod(dow + JsMod(daysOffset, 7) + 7, 7)

\* part_004 lines 8-61
applyCronOffsetDays(cron, offsetSeconds) ==
  IF Len(cron) < 5 THEN cron
  ELSE IF \/ \E i \in {1, 2, 3, 5} : IsComplex(cron[i])
          \/ cron[1] = Star
          \/ cron[2] = Star
    THEN cron
  ELSE LET minute == parseInt(cron[1])
           hour   == parseInt(cron[2])
       IN  IF minute.nan \/ hour.nan THEN cron
           ELSE LET totalSeconds == hour.value * 3600 + minute.value * 60 + offsetSeconds
                    daysOffset   == totalSeconds \div 86400
                    norm         == normalized(totalSeconds)
                    minuteStr    == toString((norm % 3600) \div 60)
                    hourStr      == toString(norm \div 3600)
                    dow          == parseInt(cron[5])
                    dom          == parseInt(cron[3])
                IN  IF daysOffset = 0
                      THEN <<minuteStr, hourStr, cron[3], cron[4], cron[5]>>
                    ELSE IF cron[5] # Star
                      THEN IF dow.nan THEN cron
                           ELSE << minuteStr, hourStr, cron[3], cron[4],
                                   toString(shiftDayOfWeek(dow.value, daysOffset)) >>
                    ELSE IF cron[3] # Star
                      THEN IF dom.nan THEN cron
                           ELSE IF dom.value + daysOffset < 1 \/ dom.value + daysOffset > 31
                             THEN cron
                           ELSE << minuteStr, hourStr, toString(dom.value + daysOffset),
                                   cron[4], cron[5] >>
                    ELSE <<minuteStr, hourStr, cron[3], cron[4], cron[5]>>

(***************************************************************************)
(* Calls of the two applyCronOffset functions.                             *)
(***************************************************************************)
MinuteFields ==
  { <<"0">>, <<"3", "0">>, <<"5", "9">>, Star, <<"*", "/", "5">>,
    <<"0", "-", "3", "0">>, <<"1", ",", "2">>, <<"x">> }
HourFields == { <<"0">>, <<"9">>, <<"2", "3">>, Star, <<"1", "-", "5">> }
DayOfMonthFields == { Star, <<"1">>, <<"1", "5">>, <<"3", "1">>, <<"1", "-", "5">> }
MonthFields == { Star, <<"6">> }
DayOfWeekFields == { Star, <<"0">>, <<"6">>, <<"1", ",", "3">>, <<"M", "O", "N">> }

\* crons of five fields, of four fields, and one of six fields
Crons ==
  { <<mi, h, dom, mo, dow>> :
      mi \in MinuteFields, h \in HourFields, dom \in DayOfMonthFields,
      mo \in MonthFields, dow \in DayOfWeekFields }
  \cup { <<mi, h, Star, Star>> : mi \in MinuteFields, h \in HourFields }
  \cup { << <<"3", "0">>, <<"9">>, Star, Star, Star, <<"2", "0", "3", "0">> >> }

\* offsets: none, less than a minute, minutes, hours, a day and more, both ways
Offsets == { 0, 30, -30, 60, -3600, 7200, 86400, -86400, 90000, -176400 }

CronFnInit ==
  /\ fnImpl = "none"
  /\ fnCron \in Crons
  /\ fnOffset \in Offsets
  /\ fnOut = <<>>
  /\ hookCron = Null /\ hookOffset = 0 /\ hookCalls = 0 /\ hookLast = "none"
  /\ EarlyOff /\ ScopeOff /\ PickerOff /\ RangeOff /\ ListOff

CronFrame == UNCHANGED << earlyVars, scopeVars, pickerVars, rangeVars, listVars >>

CallUtils ==
  /\ fnImpl = "none"
  /\ fnImpl' = "utils"
  /\ fnOut' = applyCronOffset(fnCron, fnOffset)
  /\ UNCHANGED << fnCron, fnOffset, hookCron, hookOffset, hookCalls, hookLast >>
  /\ CronFrame

CallDays ==
  /\ fnImpl = "none"
  /\ fnImpl' = "days"
  /\ fnOut' = applyCronOffsetDays(fnCron, fnOffset)
  /\ UNCHANGED << fnCron, fnOffset, hookCron, hookOffset, hookCalls, hookLast >>
  /\ CronFrame

CronFnNext == CallUtils \/ CallDays

CronFnSpec == CronFnInit /\ [][CronFnNext]_vars

\* a field that is a plain integer: digits only
IsPlainInteger(f) == f # <<>> /\ \A i \in 1..Len(f) : IsDecimal(f[i])

\* the time of day in seconds that the call asks for: the remainder of the
\* mathematical division by a day
TimeOfDay == (parseInt(fnCron[2]).value * 3600 + parseInt(fnCron[1]).value * 60
              + fnOffset) % 86400

\* the returned cron holds the time of day asked for, floored to the minute
TimeShifted ==
  /\ Len(fnOut) >= 5
  /\ fnOut[2] = toString(TimeOfDay \div 3600)
  /\ fnOut[1] = toString((TimeOfDay % 3600) \div 60)
  /\ parseInt(fnOut[2]).value \in 0..23
  /\ parseInt(fnOut[1]).value \in 0..59

PlainTime ==
  Len(fnCron) >= 5 /\ IsPlainInteger(fnCron[1]) /\ IsPlainInteger(fnCron[2])

\* C21 as stated, of both functions: a cron of at least five fields with a
\* plain minute and hour comes back with the time of day asked for.
C21_TimeShiftedByBoth ==
  (fnImpl # "none" /\ PlainTime) => TimeShifted

\* C21: of utils/applyCronOffset.ts always, and of the day-aware function
\* whenever it does not return its argument unchanged, a cron of at least
\* five fields with a plain minute and hour comes back with hour in 0..23
\* and minute in 0..59 equal to the time of day
\* (hour*3600 + minute*60 + offsetSeconds) mod 86400 floored to the minute;
\* the day-aware function returns its argument only for a list, range or
\* step in a day field, or when a midnight is crossed and the day of week is
\* no number or the day of month is no number or leaves 1..31.
C21_TimeShifted ==
  (fnImpl # "none" /\ PlainTime) =>
    \/ TimeShifted
    \/ /\ fnImpl = "days"
       /\ fnOut = fnCron
       /\ LET days == (parseInt(fnCron[2]).value * 3600
                       + parseInt(fnCron[1]).value * 60 + fnOffset) \div 86400
              dom  == parseInt(fnCron[3])
          IN  \/ IsComplex(fnCron[3]) \/ IsComplex(fnCron[5])
              \/ /\ days # 0
                 /\ \/ fnCron[5] # Star /\ parseInt(fnCron[5]).nan
                    \/ /\ fnCron[5] = Star /\ fnCron[3] # Star
                       /\ (dom.nan \/ dom.value + days < 1 \/ dom.value + days > 31)

\* 23:00 minus 49 hours by utils/applyCronOffset.ts: 22:00
C21_Witness ==
  /\ fnImpl = "utils"
  /\ fnCron[1] = <<"0">> /\ fnCron[2] = <<"2", "3">>
  /\ fnOffset = -176400
  /\ fnOut[1] = <<"0">> /\ fnOut[2] = <<"2", "2">>

\* the crons that are not to be modified: fewer than five fields, a minute
\* or hour that is "*" or no number, or a list, range or step in the
\* minute, hour, day of month or day of week
Unmodifiable ==
  \/ Len(fnCron) < 5
  \/ fnCron[1] = Star \/ fnCron[2] = Star
  \/ parseInt(fnCron[1]).nan \/ parseInt(fnCron[2]).nan
  \/ \E i \in {1, 2, 3, 5} : IsComplex(fnCron[i])

\* C22: applyCronOffset returns its argument unchanged when the cron has
\* fewer than five fields, when the minute or the hour is "*" or no number,
\* and when the minute, hour, day of month or day of week holds a list, a
\* range or a step.
C22_ComplexUnchanged ==
  (fnImpl # "none" /\ Unmodifiable) => fnOut = fnCron

\* the same of the day-aware function alone
ComplexUnchangedByDays ==
  (fnImpl = "days" /\ Unmodifiable) => fnOut = fnCron

\* the day fields of a call that crosses a midnight
DaysCrossed ==
  (parseInt(fnCron[2]).value * 3600 + parseInt(fnCron[1]).value * 60 + fnOffset)
    \div 86400

HoldsUserContent == Truthy(LocalUri) /\ ~uploaded

\* C24: a resolve fetch that settles while the hook holds content that the
\* user stored with setUri leaves that content in place and does not mark
\* it as uploaded.
C24_StaleFetchKeepsLocalContent ==
  [][ \A i \in 1..Len(fetches) : \A resp \in GetResponses(store) :
        (FetchResolves(i, resp) /\ HoldsUserContent) =>
          (localMeta' = localMeta /\ ~uploaded')
    ]_vars

(***************************************************************************)
(* src/src/useOffsetCron.ts.  It imports utils/applyCronOffset.            *)
(***************************************************************************)
MaxHookCalls == 2

\* the crons a parent stores: a valid minute and hour, and one without a
\* numeric time
HookCrons ==
  { <<mi, h, dom, Star, dow>> :
      mi \in { <<"0">>, <<"3", "0">>, <<"5", "9">> },
      h \in { <<"0">>, <<"9">>, <<"2", "3">> },
      dom \in { Star, <<"3", "1">> },
      dow \in { Star, <<"6">> } }
  \cup { <<Star, Star, Star, Star, Star>>,
         << <<"0", "5">>, <<"0", "9">>, Star, Star, Star >>,
         << <<"6", "1">>, <<"2", "5">>, Star, Star, Star >> }

HookInit ==
  /\ hookCron \in HookCrons \cup {Null}
  /\ hookOffset \in Offsets
  /\ hookCalls = 0
  /\ hookLast = "none"
  /\ fnImpl = "none" /\ fnCron = <<>> /\ fnOffset = 0 /\ fnOut = <<>>
  /\ EarlyOff /\ ScopeOff /\ PickerOff /\ RangeOff /\ ListOff

\* lines 18-21: cron ? applyCronOffset(cron, offsetSeconds) : cron
offsetCron == IF hookCron = Null THEN Null ELSE applyCronOffset(hookCron, hookOffset)

\* lines 26-34 with the value resolved
setOffsetCron(resolved) ==
  /\ hookCalls < MaxHookCalls
  /\ hookCalls' = hookCalls + 1
  /\ hookCron' = IF resolved = Null THEN Null
                 ELSE applyCronOffset(resolved, 0 - hookOffset)
  /\ UNCHANGED << hookOffset, fnImpl, fnCron, fnOffset, fnOut >>
  /\ CronFrame

\* the setter is given a new offset cron or null
SetNewOffsetCron(value) == setOffsetCron(value) /\ hookLast' = "value"

\* the setter is given the exposed offset cron, or a function that returns
\* what it is handed (offsetCron ?? null)
WriteBackOffsetCron == setOffsetCron(offsetCron) /\ hookLast' = "exposed"

HookNext ==
  \/ \E value \in HookCrons \cup {Null} : SetNewOffsetCron(value)
  \/ WriteBackOffsetCron

HookSpec == HookInit /\ [][HookNext]_vars

\* the stored cron has a numeric minute and hour
NumericTime ==
  /\ hookCron # Null
  /\ IsPlainInteger(hookCron[1]) /\ IsPlainInteger(hookCron[2])

\* its minute and hour are written without leading zeros and are a time of
\* day
CanonicalTime ==
  /\ NumericTime
  /\ hookCron[1] = toString(parseInt(hookCron[1]).value)
  /\ hookCron[2] = toString(parseInt(hookCron[2]).value)
  /\ parseInt(hookCron[1]).value \in 0..59
  /\ parseInt(hookCron[2]).value \in 0..23

\* C25 as stated: writing the exposed offset cron back through the exposed
\* setter stores the cron that was stored before, for every stored cron
\* with a numeric minute and hour and every offsetSeconds; and setting null
\* stores null.
C25_WriteBackIsLossless ==
  [][ /\ (WriteBackOffsetCron /\ NumericTime) => hookCron' = hookCron
      /\ SetNewOffsetCron(Null) => hookCron' = Null
    ]_vars

\* the part that holds: for an offset of whole minutes and a stored cron
\* whose minute and hour are a time of day written without leading zeros,
\* the write-back stores the cron that was stored before; and setting null
\* stores null
WriteBackLosslessForWholeMinutes ==
  [][ /\ (WriteBackOffsetCron /\ CanonicalTime /\ hookOffset % 60 = 0) =>
        hookCron' = hookCron
      /\ SetNewOffsetCron(Null) => hookCron' = Null
    ]_vars

\* 00:30 on the 31st seen one hour earlier, as 23:30, and written back
WholeMinutesWriteBack ==
  /\ hookLast = "exposed"
  /\ hookOffset = -3600
  /\ hookCron = << <<"3", "0">>, <<"0">>, <<"3", "1">>, Star, Star >>
  /\ offsetCron = << <<"3", "0">>, <<"2", "3">>, <<"3", "1">>, Star, Star >>

----------------------------------------------------------------------------
\* IndexedDBStorage with scopes (src/src/file/FilePreview.tsx, lines 219-425)

MaxScopeOps == 3

\* the scope given to usePlatformLocalStorage (lines 103-110)
ScopeNames == {"", "data", "photos"}

\* the constructor (lines 221-223): scope || "data"
objectStoreName(scope) == IF scope = "" THEN "data" ELSE scope

StoreNames == { objectStoreName(scope) : scope \in ScopeNames }

\* the device before the first open
ScFreshDb ==
  [exists |-> FALSE, stores |-> {}, rows |-> [n \in StoreNames |-> NoEntries]]

ScNoOutcome ==
  [scope |-> "", op |-> "none", id |-> "", kind |-> "none", value |-> Null,
   ids |-> {}]

ScSettled(scope, op, id, kind, value, ids) ==
  [scope |-> scope, op |-> op, id |-> id, kind |-> kind, value |-> value,
   ids |-> ids]

ScopeInit ==
  /\ scDb = ScFreshDb
  /\ scStored = [scope \in ScopeNames |-> NoEntries]
  /\ scOutcome = ScNoOutcome
  /\ scOps = 0
  /\ EarlyOff /\ CronOff /\ PickerOff /\ RangeOff /\ ListOff

ScopeFrame == UNCHANGED << earlyVars, cronVars, pickerVars, rangeVars, listVars >>

\* indexedDB.open("localUriDB", 1) by an instance whose object store is
\* name: onupgradeneeded runs only when the open creates the database, and
\* creates the instance's object store or, in deleteUri, nothing
ScOpen(d, name, creates) ==
  IF d.exists THEN d
  ELSE [d EXCEPT !.exists = TRUE, !.stores = IF creates THEN {name} ELSE {}]

\* onsuccess: db.transaction([objectStoreName]) throws NotFoundError when
\* the database has no such object store, and the promise stays pending
ScKind(d, name) == IF name \in d.stores THEN "resolved" ELSE "hung"

ScCalled ==
  /\ scOps < MaxScopeOps
  /\ scOps' = scOps + 1
  /\ ScopeFrame

\* new IndexedDBStorage(scope).getUri(id) (lines 225-274)
ScGetUri(scope, id) ==
  LET name == objectStoreName(scope)
      d == ScOpen(scDb, name, TRUE)
      row == d.rows[name][id]
  IN  /\ ScCalled
      /\ scDb' = d
      /\ scOutcome' = IF name \in d.stores
                        THEN ScSettled(scope, "getUri", id, "resolved",
                                       IF row = NoValue THEN Null ELSE row, {})
                        ELSE ScSettled(scope, "getUri", id, "hung", Null, {})
      /\ UNCHANGED scStored

\* new IndexedDBStorage(scope).deleteUri(id) (lines 329-373)
ScDelete(scope, op, id) ==
  LET name == objectStoreName(scope)
      d == ScOpen(scDb, name, FALSE)
      done == name \in d.stores
  IN  /\ ScCalled
      /\ scDb' = IF done THEN [d EXCEPT !.rows[name][id] = NoValue] ELSE d
      /\ scOutcome' = ScSettled(scope, op, id, ScKind(d, name), Null, {})
      /\ scStored' = IF done THEN [scStored EXCEPT ![scope][id] = NoValue]
                     ELSE scStored

ScDeleteUri(scope, id) == ScDelete(scope, "deleteUri", id)

\* new IndexedDBStorage(scope).setUri(id, uri) (lines 276-327)
ScSetUri(scope, id, uri) ==
  IF uri = Null THEN ScDelete(scope, "setUri", id)
  ELSE LET name == objectStoreName(scope)
           d == ScOpen(scDb, name, TRUE)
           done == name \in d.stores
       IN  /\ ScCalled
           /\ scDb' = IF done THEN [d EXCEPT !.rows[name][id] = uri] ELSE d
           /\ scOutcome' = ScSettled(scope, "setUri", id, ScKind(d, name),
                                     IF done THEN uri ELSE Null, {})
           /\ scStored' = IF done THEN [scStored EXCEPT ![scope][id] = uri]
                          ELSE scStored

\* new IndexedDBStorage(scope).getIds() (lines 375-424)
ScGetIds(scope) ==
  LET name == objectStoreName(scope)
      d == ScOpen(scDb, name, TRUE)
  IN  /\ ScCalled
      /\ scDb' = d
      /\ scOutcome' = ScSettled(scope, "getIds", "", ScKind(d, name), Null,
                                IF name \in d.stores
                                  THEN {id \in Ids : d.rows[name][id] # NoValue}
                                  ELSE {})
      /\ UNCHANGED scStored

\* any call on the instance of one scope
ScopeCall(scope) ==
  \/ \E id \in Ids : ScGetUri(scope, id)
  \/ \E id \in Ids : \E uri \in Values \cup {Null} : ScSetUri(scope, id, uri)
  \/ \E id \in Ids : ScDeleteUri(scope, id)
  \/ ScGetIds(scope)

ScopeNext == \E scope \in ScopeNames : ScopeCall(scope)

ScopeSpec == ScopeInit /\ [][ScopeNext]_vars

\* what getUri(id) of the scope's instance reads
ScRow(scope, id) == scDb.rows[objectStoreName(scope)][id]

\* a call on one scope leaves what every other scope reads as it was, and
\* getUri returns only what was stored through its own scope
ScIndependent(scope) ==
  /\ \A other \in ScopeNames \ {scope} : \A id \in Ids :
       ScRow(other, id)' = ScRow(other, id)
  /\ (scOutcome'.op = "getUri" /\ scOutcome'.value # Null) =>
       scOutcome'.value = scStored[scope][scOutcome'.id]

\* C26: instances of different scope names are independent and all usable:
\* whatever was called before, on whatever scope, every getUri, setUri,
\* deleteUri and getIds call settles successfully, and a value stored under
\* an id in one scope is never returned or deleted through another scope.
C26_ScopesIndependentAndUsable ==
  [][ \A scope \in ScopeNames :
        ScopeCall(scope) =>
          /\ scOutcome'.kind = "resolved"
          /\ ScIndependent(scope) ]_vars

\* the part that holds: scopes of different object store names never read
\* or change each other's entries
DistinctStoresIndependent ==
  [][ \A scope \in ScopeNames :
        ScopeCall(scope) =>
          /\ \A other \in ScopeNames :
               objectStoreName(other) # objectStoreName(scope) =>
                 \A id \in Ids : ScRow(other, id)' = ScRow(other, id)
          /\ scDb'.stores \subseteq {objectStoreName(scope)} \cup scDb.stores ]_vars

\* the scopes "" and "data" share the object store "data"
SharedStoreKeepsScopesApart ==
  [][ \A scope \in ScopeNames : ScopeCall(scope) => ScIndependent(scope) ]_vars

\* at most one object store ever exists, so at most one store name is usable
OneStoreOnly == Cardinality(scDb.stores) <= 1

----------------------------------------------------------------------------
\* CronIntervalPicker (src/src/CronIntervalPicker.tsx)

MaxPickerOps == 3

\* the items of the frequency Picker (lines 261-264)
Frequencies == {"daily", "weekly", "monthly", "yearly"}

\* the day buttons pressed, of the seven (line 248)
DayIndexes == {0, 1, 6}

\* a Date by its hours and minutes, and a Date by its month and day
Times == { [hour |-> 0, minute |-> 0], [hour |-> 9, minute |-> 30],
           [hour |-> 23, minute |-> 59] }
Dates == { [month |-> 1, day |-> 1], [month |-> 2, day |-> 29],
           [month |-> 12, day |-> 31] }

\* null where a Date or a month and day is expected
NoTime == [hour |-> -1, minute |-> -1]
NoDate == [month |-> 0, day |-> 0]

\* new Date() at the moment of a call
Nows == { [hour |-> 7, minute |-> 5] }

\* the order of Array.prototype.sort without a comparator: the elements are
\* compared as strings
RECURSIVE StringLess(_, _)
StringLess(a, b) ==
  IF b = <<>> THEN FALSE
  ELSE IF a = <<>> THEN TRUE
  ELSE IF a[1] = b[1] THEN StringLess(Tail(a), Tail(b))
  ELSE IF IsDecimal(a[1]) /\ IsDecimal(b[1])
    THEN DecimalValue(a[1]) < DecimalValue(b[1])
  ELSE a[1] = "-"

RECURSIVE Insert(_, _)
Insert(n, sorted) ==
  IF sorted = <<>> THEN <<n>>
  ELSE IF StringLess(toString(n), toString(sorted[1])) THEN <<n>> \o sorted
  ELSE <<sorted[1]>> \o Insert(n, Tail(sorted))

RECURSIVE sort(_)
sort(a) == IF a = <<>> THEN <<>> ELSE Insert(a[Len(a)], sort(SubSeq(a, 1, Len(a) - 1)))

\* Array.prototype.join(",") of numbers
RECURSIVE join(_)
join(a) ==
  IF a = <<>> THEN <<>>
  ELSE IF Len(a) = 1 THEN toString(a[1])
  ELSE toString(a[1]) \o <<",">> \o join(Tail(a))

\* String.prototype.split(",")
RECURSIVE splitFrom(_, _)
splitFrom(s, piece) ==
  IF s = <<>> THEN <<piece>>
  ELSE IF s[1] = "," THEN <<piece>> \o splitFrom(Tail(s), <<>>)
  ELSE splitFrom(Tail(s), Append(piece, s[1]))

split(s) == splitFrom(s, <<>>)

\* Number(s) of a piece: 0 for the empty string, the value of a run of
\* digits, and NaN otherwise
NaN == -1
Number(s) ==
  IF s = <<>> THEN 0
  ELSE IF DecimalPrefix(s) = s THEN DecimalsValue(s)
  ELSE NaN

includes(a, n) == \E i \in 1..Len(a) : a[i] = n
filter(a, n) == SelectSeq(a, LAMBDA d : d # n)

\* generateCron (lines 17-56); now is what new Date() returns
generateCron(frequency, selectedDaysOfWeek, selectedDayOfMonth, selectedMonthDay, time, now) ==
  LET effectiveTime == IF time = NoTime THEN now ELSE time
      minute == toString(effectiveTime.minute)
      hour == toString(effectiveTime.hour)
  IN  CASE frequency = "daily" -> <<minute, hour, Star, Star, Star>>
        [] frequency = "weekly" ->
             <<minute, hour, Star, Star,
               IF Len(selectedDaysOfWeek) > 0
                 THEN join(sort(selectedDaysOfWeek)) ELSE <<"0">> >>
        [] frequency = "monthly" ->
             <<minute, hour,
               IF selectedDayOfMonth # NoDate
                 THEN toString(selectedDayOfMonth.day) ELSE <<"1">>,
               Star, Star>>
        [] frequency = "yearly" ->
             <<minute, hour,
               IF selectedMonthDay # NoDate
                 THEN toString(selectedMonthDay.day) ELSE <<"1">>,
               IF selectedMonthDay # NoDate
                 THEN toString(selectedMonthDay.month) ELSE <<"1">>,
               Star>>
        [] OTHER -> <<Star, Star, Star, Star, Star>>

\* parseCronString (lines 66-130); the cron is given by its fields
\* (cronString.split(" ")), or is Null
parseCronString(cron, now) ==
  IF cron = Null
    THEN [frequency |-> "daily", time |-> now, daysOfWeek |-> <<>>,
          dayOfMonth |-> NoDate, monthDay |-> NoDate]
  ELSE IF Len(cron) # 5
    THEN [frequency |-> "custom", time |-> now, daysOfWeek |-> <<>>,
          dayOfMonth |-> NoDate, monthDay |-> NoDate]
  ELSE
    LET parsedHour == parseInt(cron[2])
        parsedMinute == parseInt(cron[1])
        parsedTime == IF ~parsedHour.nan /\ ~parsedMinute.nan
                        THEN [hour |-> parsedHour.value,
                              minute |-> parsedMinute.value]
                        ELSE NoTime
        isDomWildcard == cron[3] = Star
        isMonthWildcard == cron[4] = Star
        isDowWildcard == cron[5] = Star
        d == parseInt(cron[3])
        m == parseInt(cron[4])
        pieces == split(cron[5])
    IN  [frequency |->
           IF isDomWildcard /\ isMonthWildcard /\ isDowWildcard THEN "daily"
           ELSE IF isDomWildcard /\ isMonthWildcard /\ ~isDowWildcard THEN "weekly"
           ELSE IF ~isDomWildcard /\ isMonthWildcard /\ isDowWildcard THEN "monthly"
           ELSE IF ~isDomWildcard /\ ~isMonthWildcard /\ isDowWildcard THEN "yearly"
           ELSE "custom",
         time |-> parsedTime,
         daysOfWeek |->
           IF isDomWildcard /\ isMonthWildcard /\ ~isDowWildcard
             THEN [i \in 1..Len(pieces) |-> Number(pieces[i])]
             ELSE <<>>,
         dayOfMonth |->
           IF ~isDomWildcard /\ isMonthWildcard /\ isDowWildcard /\ ~d.nan
             THEN [month |-> 1, day |-> d.value]
             ELSE NoDate,
         monthDay |->
           IF ~isDomWildcard /\ ~isMonthWildcard /\ isDowWildcard
              /\ ~d.nan /\ ~m.nan
             THEN [month |-> m.value, day |-> d.value]
             ELSE NoDate]

PickerInit ==
  /\ pkValue \in { Null,
                   << <<"3", "0">>, <<"9">>, Star, Star, <<"1", ",", "6">> >>,
                   << <<"0">>, <<"0">>, <<"1", "5">>, Star, Star >> }
  /\ pkGiven = [frequency |-> "none", daysOfWeek |-> <<>>,
                dayOfMonth |-> NoDate, monthDay |-> NoDate, time |-> NoTime]
  /\ pkHandler = "none"
  /\ pkOps = 0
  /\ EarlyOff /\ CronOff /\ ScopeOff /\ RangeOff /\ ListOff

PickerFrame == UNCHANGED << earlyVars, cronVars, scopeVars, rangeVars, listVars >>

\* emitNewCron (lines 154-181) with the arguments resolved against the
\* derived values; setParentValue is given
emitNewCron(handler, newFreq, newDays, newDayOfMonth, newMonthDay, newTime, now) ==
  /\ pkOps < MaxPickerOps
  /\ pkOps' = pkOps + 1
  /\ pkHandler' = handler
  /\ pkGiven' = [frequency |-> newFreq, daysOfWeek |-> newDays,
                 dayOfMonth |-> newDayOfMonth, monthDay |-> newMonthDay,
                 time |-> newTime]
  /\ pkValue' = generateCron(newFreq, newDays, newDayOfMonth, newMonthDay,
                             newTime, now)
  /\ PickerFrame

\* the derived values of a render (lines 141-152)
Derived(now) == parseCronString(pkValue, now)

\* lines 183-188
handleFrequencyChange(newFreq, now) ==
  LET p == Derived(now)
  IN  emitNewCron("frequency", newFreq, p.daysOfWeek, p.dayOfMonth,
                  p.monthDay, p.time, now)

\* lines 190-200; the time section is shown for the four frequencies
handleTimeChange(resolvedTime, now) ==
  LET p == Derived(now)
  IN  /\ p.frequency \in Frequencies
      /\ emitNewCron("time", p.frequency, p.daysOfWeek, p.dayOfMonth,
                     p.monthDay, resolvedTime, now)

\* lines 202-210; shown when the frequency is monthly
handleDayOfMonthChange(resolvedDate, now) ==
  LET p == Derived(now)
  IN  /\ p.frequency = "monthly"
      /\ emitNewCron("dayOfMonth", p.frequency, p.daysOfWeek, resolvedDate,
                     p.monthDay, p.time, now)

\* lines 212-220; the day buttons are shown when the frequency is weekly
handleDayOfWeekToggle(dayIndex, now) ==
  LET p == Derived(now)
      newDays == IF includes(p.daysOfWeek, dayIndex)
                   THEN filter(p.daysOfWeek, dayIndex)
                   ELSE sort(Append(p.daysOfWeek, dayIndex))
  IN  /\ p.frequency = "weekly"
      /\ emitNewCron("dayOfWeek", p.frequency, newDays, p.dayOfMonth,
                     p.monthDay, p.time, now)

\* lines 228-247; shown when the frequency is yearly
handleYearlyDatePickerChange(resolvedDate, now) ==
  LET p == Derived(now)
  IN  /\ p.frequency = "yearly"
      /\ emitNewCron("monthDay", p.frequency, p.daysOfWeek, p.dayOfMonth,
                     IF resolvedDate # NoDate
                       THEN [month |-> resolvedDate.month, day |-> resolvedDate.day]
                       ELSE NoDate,
                     p.time, now)

PickerNext ==
  \E now \in Nows :
    \/ \E newFreq \in Frequencies : handleFrequencyChange(newFreq, now)
    \/ \E t \in Times \cup {NoTime} : handleTimeChange(t, now)
    \/ \E date \in Dates \cup {NoDate} : handleDayOfMonthChange(date, now)
    \/ \E dayIndex \in DayIndexes : handleDayOfWeekToggle(dayIndex, now)
    \/ \E date \in Dates \cup {NoDate} : handleYearlyDatePickerChange(date, now)

PickerSpec == PickerInit /\ [][PickerNext]_vars

\* the days a list of days selects
DaySet(a) == { a[i] : i \in 1..Len(a) }

\* what parseCronString makes of the parent's cron agrees with what
\* generateCron was given: the frequency, the time when one was given, and
\* the selection that belongs to the frequency
RoundTrip(p, given) ==
  /\ p.frequency = given.frequency
  /\ given.time # NoTime =>
       p.time # NoTime /\ p.time.hour = given.time.hour
                     /\ p.time.minute = given.time.minute
  /\ given.frequency = "weekly" => DaySet(p.daysOfWeek) = DaySet(given.daysOfWeek)
  /\ (given.frequency = "monthly" /\ given.dayOfMonth # NoDate) =>
       p.dayOfMonth # NoDate /\ p.dayOfMonth.day = given.dayOfMonth.day
  /\ (given.frequency = "yearly" /\ given.monthDay # NoDate) =>
       p.monthDay = given.monthDay

\* C27: parseCronString inverts generateCron: after every handler, parsing
\* the emitted cron returns the frequency, the hour and minute, and the
\* selected days of week, day of month and month/day that generateCron was
\* given; and toggling a selected weekday off removes exactly that day.
C27_ParseInvertsGenerate ==
  [][ \A now \in Nows :
        /\ PickerNext => RoundTrip(Derived(now)', pkGiven')
        /\ \A dayIndex \in DayIndexes :
             (handleDayOfWeekToggle(dayIndex, now)
                /\ includes(Derived(now).daysOfWeek, dayIndex)) =>
               DaySet(Derived(now).daysOfWeek') =
                 DaySet(Derived(now).daysOfWeek) \ {dayIndex} ]_vars

\* the part that holds: the round trip whenever the frequency is not weekly
\* or at least one day of the week is given
RoundTripWhenDaySelected ==
  (pkHandler # "none" /\ ~(pkGiven.frequency = "weekly" /\ pkGiven.daysOfWeek = <<>>))
    => \A now \in Nows : RoundTrip(Derived(now), pkGiven)

\* toggling a selected weekday off removes exactly that day, whenever
\* another day stays selected
ToggleOffRemovesDay ==
  [][ \A now \in Nows : \A dayIndex \in DayIndexes :
        (handleDayOfWeekToggle(dayIndex, now)
           /\ includes(Derived(now).daysOfWeek, dayIndex)
           /\ Len(Derived(now).daysOfWeek) > 1) =>
          DaySet(Derived(now).daysOfWeek') =
            DaySet(Derived(now).daysOfWeek) \ {dayIndex} ]_vars

----------------------------------------------------------------------------
\* DateRangePicker (src/src/DatePicker.tsx, lines 277-369)

MaxRangeOps == 4

\* dates the inner DatePickers confirm, and new Date() at openModal
PickedDates == {1, 2}
Today == 3
NoDay == 0

Range(startDate, endDate) == [startDate |-> startDate, endDate |-> endDate]
\* the parent's value null
NullRange == [startDate |-> -1, endDate |-> -1]
ParentRanges ==
  { Range(s, e) : s \in PickedDates \cup {NoDay}, e \in PickedDates \cup {NoDay} }

\* formatDateDisplay (lines 371-373): toLocaleDateString, one text per day
formatDateDisplay(date) == <<"date", date>>

\* getDisplayValue (lines 325-337) of a range
DisplayValue(range) ==
  IF range.startDate # NoDay /\ range.endDate # NoDay
    THEN formatDateDisplay(range.startDate) \o <<" - ">>
           \o formatDateDisplay(range.endDate)
  ELSE IF range.startDate # NoDay
    THEN <<"Start Date: ">> \o formatDateDisplay(range.startDate)
  ELSE IF range.endDate # NoDay
    THEN <<"End Date: ">> \o formatDateDisplay(range.endDate)
  ELSE <<"Select Date Range">>

\* what the touchable shows (line 343)
getDisplayValue == DisplayValue(internalDateRange)

\* useState(dateRangeValue ?? { startDate: null, endDate: null }), line 285
RangeInit ==
  /\ dateRangeValue \in ParentRanges \cup {NullRange}
  /\ internalDateRange = IF dateRangeValue = NullRange
                           THEN Range(NoDay, NoDay) ELSE dateRangeValue
  /\ rgModalVisible = FALSE
  /\ rgCalls = 0
  /\ rgOps = 0
  /\ EarlyOff /\ CronOff /\ ScopeOff /\ PickerOff /\ ListOff

RangeFrame == UNCHANGED << earlyVars, cronVars, scopeVars, pickerVars, listVars >>

RangeCalled ==
  /\ rgOps < MaxRangeOps
  /\ rgOps' = rgOps + 1
  /\ RangeFrame

\* lines 318-323; dateRangeValue || { startDate: new Date(), ... }
openModal ==
  /\ RangeCalled
  /\ ~rgModalVisible
  /\ rgModalVisible' = TRUE
  /\ internalDateRange' = IF dateRangeValue = NullRange
                            THEN Range(Today, Today) ELSE dateRangeValue
  /\ UNCHANGED << dateRangeValue, rgCalls >>

\* lines 287-295: the inner DatePicker of the start date confirms a date
setInternalStartDate(newStartDate) ==
  /\ RangeCalled
  /\ rgModalVisible
  /\ internalDateRange' = [internalDateRange EXCEPT !.startDate = newStartDate]
  /\ UNCHANGED << dateRangeValue, rgModalVisible, rgCalls >>

\* lines 297-305
setInternalEndDate(newEndDate) ==
  /\ RangeCalled
  /\ rgModalVisible
  /\ internalDateRange' = [internalDateRange EXCEPT !.endDate = newEndDate]
  /\ UNCHANGED << dateRangeValue, rgModalVisible, rgCalls >>

\* lines 307-312; the parent keeps what its setter is given
confirmRange ==
  /\ RangeCalled
  /\ rgModalVisible
  /\ dateRangeValue' = internalDateRange
  /\ rgCalls' = rgCalls + 1
  /\ rgModalVisible' = FALSE
  /\ UNCHANGED internalDateRange

\* lines 314-316
cancelRange ==
  /\ RangeCalled
  /\ rgModalVisible
  /\ rgModalVisible' = FALSE
  /\ UNCHANGED << dateRangeValue, internalDateRange, rgCalls >>

RangeNext ==
  \/ openModal
  \/ \E d \in PickedDates : setInternalStartDate(d)
  \/ \E d \in PickedDates : setInternalEndDate(d)
  \/ confirmRange
  \/ cancelRange

RangeSpec == RangeInit /\ [][RangeNext]_vars

\* the closed picker shows the parent's value
ClosedShowsParent ==
  ~rgModalVisible =>
    getDisplayValue = DisplayValue(IF dateRangeValue = NullRange
                                     THEN Range(NoDay, NoDay) ELSE dateRangeValue)

\* C28: Cancel discards the edit: Cancel does not call the parent's setter,
\* and after it the closed picker shows the parent's value, not the
\* unconfirmed internal range; only Confirm writes the internal range to
\* the parent.
C28_CancelDiscardsEdit ==
  [][ /\ cancelRange =>
           /\ rgCalls' = rgCalls /\ dateRangeValue' = dateRangeValue
           /\ ClosedShowsParent'
      /\ (rgCalls' # rgCalls \/ dateRangeValue' # dateRangeValue) =>
           confirmRange /\ dateRangeValue' = internalDateRange ]_vars

\* the part that holds: only Confirm calls the parent's setter, with the
\* internal range, and after Confirm the closed picker shows the parent's
\* value
OnlyConfirmWrites ==
  [][ /\ cancelRange => rgCalls' = rgCalls /\ dateRangeValue' = dateRangeValue
      /\ (rgCalls' # rgCalls \/ dateRangeValue' # dateRangeValue) =>
           confirmRange /\ dateRangeValue' = internalDateRange
      /\ confirmRange => ClosedShowsParent' ]_vars

----------------------------------------------------------------------------
\* ListView of makeDatabaseTestScreen (src/src/makeDatabaseTestScreen.tsx)

\* itemsPerPage (200 in the source), scaled down
ItemsPerPage == 2
MaxTotal == 5
MaxListOps == 4

\* list === undefined while the page is loading
LoadingList == <<-1>>

\* the api's items are 1..lvTotal; the items of a page, by limit and offset
PageItems(total, page) ==
  LET first == page * ItemsPerPage + 1
      last == IF (page + 1) * ItemsPerPage < total
                THEN (page + 1) * ItemsPerPage ELSE total
  IN  IF first > last THEN <<>> ELSE [i \in 1..(last - first + 1) |-> first + i - 1]

\* a[a.length - 1]: the last item, or undefined (here 0) of an empty array
LastOf(a) == IF a = <<>> THEN 0 ELSE a[Len(a)]

\* an array by its items and its identity: "list" when it is the array
\* useGetList returned, and otherwise one of two marks, so that an array
\* made anew differs from the one before it
Array(items, ref) == [items |-> items, ref |-> ref]
NewRef(old) == IF old = "a" THEN "b" ELSE "a"

ListInit ==
  /\ lvTotal \in 0..MaxTotal
  /\ lvList = LoadingList
  /\ lvData = Array(<<>>, "a")
  /\ lvPage = 0
  /\ lvEffect = FALSE
  /\ lvOps = 0
  /\ EarlyOff /\ CronOff /\ ScopeOff /\ PickerOff /\ RangeOff

ListFrame == UNCHANGED << earlyVars, cronVars, scopeVars, pickerVars, rangeVars >>

hasMore == lvList # LoadingList /\ Len(lvList) = ItemsPerPage
loading == lvList = LoadingList

\* api.useGetList delivers the page: list changes, the effect is due
ListLoads ==
  /\ loading
  /\ lvList' = PageItems(lvTotal, lvPage)
  /\ lvEffect' = TRUE
  /\ UNCHANGED << lvTotal, lvData, lvPage, lvOps >>
  /\ ListFrame

\* the pagination effect (lines 117-127) runs because list, data or page
\* changed. setData with the array that data already is changes nothing;
\* setData with another array re-renders and makes the effect due again
PaginationEffect ==
  /\ lvEffect
  /\ IF ~loading /\ lvPage = 0
       THEN IF lvData.ref = "list"
              THEN lvEffect' = FALSE /\ UNCHANGED lvData
              ELSE lvEffect' = TRUE /\ lvData' = Array(lvList, "list")
     ELSE IF ~loading /\ lvPage > 0 /\ LastOf(lvData.items) # LastOf(lvList)
       THEN /\ lvEffect' = TRUE
            /\ lvData' = Array(lvData.items \o lvList, NewRef(lvData.ref))
     ELSE lvEffect' = FALSE /\ UNCHANGED lvData
  /\ UNCHANGED << lvTotal, lvList, lvPage, lvOps >>
  /\ ListFrame

\* a user event is handled once the effects of the last render have run
UserEvent ==
  /\ ~lvEffect
  /\ lvOps < MaxListOps
  /\ lvOps' = lvOps + 1
  /\ UNCHANGED lvTotal
  /\ ListFrame

\* fetchMoreData (lines 129-133), onEndReached of the FlatList: the next
\* page loads
fetchMoreData ==
  /\ UserEvent
  /\ IF ~loading /\ hasMore
       THEN /\ lvPage' = lvPage + 1
            /\ lvList' = LoadingList
            /\ lvEffect' = TRUE
            /\ lvData' = IF lvData.ref = "list"
                           THEN Array(lvData.items, "a") ELSE lvData
       ELSE UNCHANGED << lvPage, lvList, lvEffect, lvData >>

\* handleRefresh (lines 165-168): setPage(0), setData([])
handleRefresh ==
  /\ UserEvent
  /\ lvPage' = 0
  /\ lvData' = Array(<<>>, NewRef(lvData.ref))
  /\ lvList' = IF lvPage = 0 THEN lvList ELSE LoadingList
  /\ lvEffect' = TRUE

ListNext ==
  \/ ListLoads
  \/ PaginationEffect
  \/ fetchMoreData
  \/ handleRefresh

ListSpec == ListInit /\ [][ListNext]_vars

\* React runs a due effect, and a started request settles
ListFairSpec ==
  ListSpec /\ WF_vars(PaginationEffect) /\ WF_vars(ListLoads)

\* no item is in data twice
AppendedOnce ==
  \A i, j \in 1..Len(lvData.items) :
    lvData.items[i] = lvData.items[j] => i = j

\* C29: the pagination effect reaches a fixpoint after every page load,
\* also after an empty page loaded when the total is an exact multiple of
\* the page size: the page's items are appended to data at most once, and
\* the effect stops scheduling state updates.
C29_EffectReachesFixpoint ==
  /\ []AppendedOnce
  /\ [](lvEffect => <>(~lvEffect))

\* the part that holds: items are appended at most once, and the effect
\* settles unless the total is a positive multiple of the page size
FixpointUnlessExactMultiple ==
  /\ []AppendedOnce
  /\ (lvTotal = 0 \/ lvTotal % ItemsPerPage # 0) => [](lvEffect => <>(~lvEffect))

====
